---------------------------- MODULE Spec2Model ----------------------------
(***************************************************************************)
(* Model of the merge engine (src/merge-engine): the line-level diff3, the *)
(* pattern rules, the search stage and the resolver pipeline.              *)
(*                                                                         *)
(* A text is a sequence of one-character strings, so that every conversion *)
(* of the code (str::lines, the line tokenizer of the diff, trim, join,    *)
(* push('\n')) is computed the way the code computes it.                   *)
(***************************************************************************)
EXTENDS Integers, Sequences, FiniteSets, TLC

VARIABLES
    pc,               \* position of the call in progress
    config,           \* ResolverConfig of the Resolver (resolver.rs:23-32)
    scenario,         \* the (base, left, right) texts of the call
    env,              \* results of the external crates for this call
    candidates,       \* resolve_conflict: the local `candidates`
    strategies_tried, \* resolve_conflict: the local `strategies_tried`
    resolution,       \* ResolverOutput.resolution (<<>> is None, <<c>> is Some(c))
    fileOut           \* FileResolverOutput of resolve_file, and the hunks it saw

vars == <<pc, config, scenario, env, candidates, strategies_tried, resolution, fileOut>>

-----------------------------------------------------------------------------
(* Bounds of the model.                                                    *)

\* resolve_file: texts of at most this many lines
MaxLines == 2

\* sizes of the SearchConfig and of the ResolverConfig of the model
MaxCandidates == 3
MaxGenerations == 1
PopulationSize == 3
MaxVsaCandidates == 2

-----------------------------------------------------------------------------
(* Characters and strings.                                                 *)

NL == "\n"
SP == " "

IsWhitespace(c) == c \in {NL, SP}

Min(a, b) == IF a <= b THEN a ELSE b
Max(a, b) == IF a >= b THEN a ELSE b

RECURSIVE Concat(_)
\* the concatenation of a sequence of strings
Concat(ss) == IF ss = <<>> THEN <<>> ELSE Head(ss) \o Concat(Tail(ss))

RECURSIVE Join(_, _)
\* [String]::join(sep)
Join(ss, sep) ==
    IF ss = <<>> THEN <<>>
    ELSE IF Len(ss) = 1 THEN ss[1]
    ELSE ss[1] \o sep \o Join(Tail(ss), sep)

StartsWith(s, p) == Len(p) <= Len(s) /\ SubSeq(s, 1, Len(p)) = p
EndsWith(s, p) == Len(p) <= Len(s) /\ SubSeq(s, Len(s) - Len(p) + 1, Len(s)) = p
Contains(s, p) == \E i \in 1..(Len(s) - Len(p) + 1) : SubSeq(s, i, i + Len(p) - 1) = p

RECURSIVE TrimStart(_)
TrimStart(s) == IF s # <<>> /\ IsWhitespace(Head(s)) THEN TrimStart(Tail(s)) ELSE s

RECURSIVE TrimEnd(_)
TrimEnd(s) ==
    IF s # <<>> /\ IsWhitespace(s[Len(s)]) THEN TrimEnd(SubSeq(s, 1, Len(s) - 1)) ELSE s

\* str::trim
Trim(s) == TrimEnd(TrimStart(s))

RECURSIVE TrimEndMatchesNl(_)
\* str::trim_end_matches('\n')
TrimEndMatchesNl(s) ==
    IF s # <<>> /\ s[Len(s)] = NL THEN TrimEndMatchesNl(SubSeq(s, 1, Len(s) - 1)) ELSE s

RECURSIVE SplitTerminated(_, _)
\* the pieces of s, each ending with its "\n" (the last may have none)
SplitTerminated(s, cur) ==
    IF s = <<>> THEN (IF cur = <<>> THEN <<>> ELSE <<cur>>)
    ELSE IF Head(s) = NL THEN <<Append(cur, NL)>> \o SplitTerminated(Tail(s), <<>>)
    ELSE SplitTerminated(Tail(s), Append(cur, Head(s)))

\* the line tokens TextDiff::from_lines compares: lines with their terminator
SplitLines(s) == SplitTerminated(s, <<>>)

\* str::lines: the lines without their terminator, no final empty line
Lines(s) == [i \in 1..Len(SplitLines(s)) |-> TrimEndMatchesNl(SplitLines(s)[i])]

RECURSIVE SplitWs(_, _)
SplitWs(s, cur) ==
    IF s = <<>> THEN (IF cur = <<>> THEN <<>> ELSE <<cur>>)
    ELSE IF IsWhitespace(Head(s))
         THEN (IF cur = <<>> THEN <<>> ELSE <<cur>>) \o SplitWs(Tail(s), <<>>)
         ELSE SplitWs(Tail(s), Append(cur, Head(s)))

\* str::split_whitespace
SplitWhitespace(s) == SplitWs(s, <<>>)

RECURSIVE PushLines(_)
\* for line in lines { merged.push_str(line); merged.push('\n') }
PushLines(ls) == IF ls = <<>> THEN <<>> ELSE Head(ls) \o <<NL>> \o PushLines(Tail(ls))

Range(f) == {f[i] : i \in DOMAIN f}

SeqsUpTo(S, n) == UNION {[1..k -> S] : k \in 0..n}

-----------------------------------------------------------------------------
(* The line diff of the `similar` crate (TextDiff::from_lines and          *)
(* iter_all_changes), an external dependency.  Its contract: the changes   *)
(* are an edit script from old to new over the line tokens, the Equal      *)
(* changes are a longest common subsequence, and between two Equal changes *)
(* the Delete changes come before the Insert changes (a Replace op).       *)
(* Which longest common subsequence it takes is left open: env holds the   *)
(* script of each diff of the call.                                        *)

Change(tag, value) == [tag |-> tag, value |-> value]

RECURSIVE LcsLen(_, _)
\* the length of a longest common subsequence of two token sequences
LcsLen(old, new) ==
    IF old = <<>> \/ new = <<>> THEN 0
    ELSE IF Head(old) = Head(new) THEN 1 + LcsLen(Tail(old), Tail(new))
    ELSE Max(LcsLen(Tail(old), new), LcsLen(old, Tail(new)))

RECURSIVE EditScripts(_, _, _)
\* the edit scripts from old to new whose Equal changes are a longest common
\* subsequence and in which no Delete follows an Insert (deletions come first
\* in a run of changes); after_insert: the change before was an Insert
EditScripts(old, new, after_insert) ==
    IF old = <<>> /\ new = <<>> THEN {<<>>}
    ELSE (IF old # <<>> /\ new # <<>> /\ Head(old) = Head(new)
          THEN {<<Change("Equal", Head(old))>> \o t :
                    t \in EditScripts(Tail(old), Tail(new), FALSE)}
          ELSE {})
         \cup (IF old # <<>> /\ ~after_insert /\ LcsLen(Tail(old), new) = LcsLen(old, new)
               THEN {<<Change("Delete", Head(old))>> \o t :
                        t \in EditScripts(Tail(old), new, FALSE)}
               ELSE {})
         \cup (IF new # <<>> /\ LcsLen(old, Tail(new)) = LcsLen(old, new)
               THEN {<<Change("Insert", Head(new))>> \o t :
                        t \in EditScripts(old, Tail(new), TRUE)}
               ELSE {})

\* the scripts TextDiff::from_lines(old, new).iter_all_changes() may yield
TextDiffChanges(old, new) == EditScripts(SplitLines(old), SplitLines(new), FALSE)

-----------------------------------------------------------------------------
(* diff3.rs                                                                *)

LineOp(op, lines) == [op |-> op, lines |-> lines]

RECURSIVE ExtractOps(_, _)
ExtractOps(changes, pending_inserts) ==
    IF changes = <<>>
    THEN (IF pending_inserts # <<>> THEN <<LineOp("Insert", pending_inserts)>> ELSE <<>>)
    ELSE LET change == Head(changes)
             flushed == IF pending_inserts # <<>>
                        THEN <<LineOp("Insert", pending_inserts)>> ELSE <<>>
         IN  CASE change.tag = "Equal" ->
                    flushed \o <<LineOp("Keep", <<TrimEndMatchesNl(change.value)>>)>>
                            \o ExtractOps(Tail(changes), <<>>)
               [] change.tag = "Delete" ->
                    flushed \o <<LineOp("Delete", <<TrimEndMatchesNl(change.value)>>)>>
                            \o ExtractOps(Tail(changes), <<>>)
               [] OTHER ->
                    ExtractOps(Tail(changes),
                               Append(pending_inserts, TrimEndMatchesNl(change.value)))

\* extract_line_ops: the per-base-line operations of a diff
extract_line_ops(changes) == ExtractOps(changes, <<>>)

Hunk(kind, lines) == [kind |-> kind, lines |-> lines]

\* Diff3Hunk::Conflict { base, left, right }
ConflictHunk(b, l, r) == [kind |-> "Conflict", base |-> b, left |-> l, right |-> r]

RECURSIVE WalkOps(_, _, _, _)
\* the loop of build_hunks: the hunks pushed from cursors li, ri on (1-based)
WalkOps(left_ops, right_ops, li, ri) ==
    IF ~(li <= Len(left_ops) \/ ri <= Len(right_ops)) THEN <<>>
    ELSE LET hasL == li <= Len(left_ops)
             hasR == ri <= Len(right_ops)
             l == IF hasL THEN left_ops[li].op ELSE "None"
             r == IF hasR THEN right_ops[ri].op ELSE "None"
         IN  CASE l = "Keep" /\ r = "Keep" ->
                    <<Hunk("Stable", left_ops[li].lines)>>
                        \o WalkOps(left_ops, right_ops, li + 1, ri + 1)
               [] l = "Insert" ->
                    <<Hunk("LeftChanged", left_ops[li].lines)>>
                        \o WalkOps(left_ops, right_ops, li + 1, ri)
               [] l # "Insert" /\ r = "Insert" ->
                    <<Hunk("RightChanged", right_ops[ri].lines)>>
                        \o WalkOps(left_ops, right_ops, li, ri + 1)
               [] l = "Delete" /\ r = "Delete" ->
                    WalkOps(left_ops, right_ops, li + 1, ri + 1)
               [] l = "Delete" /\ r = "Keep" ->
                    WalkOps(left_ops, right_ops, li + 1, ri + 1)
               [] l = "Keep" /\ r = "Delete" ->
                    WalkOps(left_ops, right_ops, li + 1, ri + 1)
               [] l = "Keep" /\ r = "None" ->
                    <<Hunk("Stable", left_ops[li].lines)>>
                        \o WalkOps(left_ops, right_ops, li + 1, ri)
               [] l = "Delete" /\ r = "None" ->
                    WalkOps(left_ops, right_ops, li + 1, ri)
               [] l = "None" /\ r = "Keep" ->
                    <<Hunk("Stable", right_ops[ri].lines)>>
                        \o WalkOps(left_ops, right_ops, li, ri + 1)
               [] l = "None" /\ r = "Delete" ->
                    WalkOps(left_ops, right_ops, li, ri + 1)

RECURSIVE CoalesceInto(_, _)
CoalesceInto(result, hunks) ==
    IF hunks = <<>> THEN result
    ELSE LET hunk == Head(hunks)
             should_merge == /\ result # <<>>
                             /\ hunk.kind \in {"Stable", "LeftChanged", "RightChanged"}
                             /\ result[Len(result)].kind = hunk.kind
         IN  IF should_merge
             THEN CoalesceInto(
                      [result EXCEPT ![Len(result)] =
                          Hunk(hunk.kind, result[Len(result)].lines \o hunk.lines)],
                      Tail(hunks))
             ELSE CoalesceInto(Append(result, hunk), Tail(hunks))

\* coalesce_hunks: adjacent hunks of the same kind become one
coalesce_hunks(hunks) == CoalesceInto(<<>>, hunks)

\* a build_hunks that loses the lines only right inserted
build_hunks_left_only(left_ops, right_ops) ==
    coalesce_hunks(SelectSeq(WalkOps(left_ops, right_ops, 1, 1),
                             LAMBDA h : h.kind # "RightChanged"))

\* build_hunks: walk both op sequences, then coalesce
build_hunks(left_ops, right_ops) == coalesce_hunks(WalkOps(left_ops, right_ops, 1, 1))

\* diff3_hunks, given the changes of the two diffs base->left and base->right
diff3_hunks(changes_bl, changes_br) ==
    build_hunks(extract_line_ops(changes_bl), extract_line_ops(changes_br))

Resolved(text) == [kind |-> "Resolved", content |-> text]
ConflictResult(b, l, r) == [kind |-> "Conflict", base |-> b, left |-> l, right |-> r]

RECURSIVE MergedOfHunks(_)
\* diff3_merge: the buffer `merged` after the loop over the hunks
MergedOfHunks(hunks) ==
    IF hunks = <<>> THEN <<>>
    ELSE (IF Head(hunks).kind = "Conflict" THEN <<>> ELSE PushLines(Head(hunks).lines))
         \o MergedOfHunks(Tail(hunks))

\* diff3_merge: Conflict of the last conflict hunk if there is one, else Resolved
diff3_merge_of(hunks) ==
    LET conflicts == {i \in DOMAIN hunks : hunks[i].kind = "Conflict"}
    IN  IF conflicts # {}
        THEN LET last == hunks[CHOOSE i \in conflicts : \A j \in conflicts : j <= i]
             IN  ConflictResult(Join(last.base, <<NL>>), Join(last.left, <<NL>>),
                                Join(last.right, <<NL>>))
        ELSE Resolved(MergedOfHunks(hunks))

-----------------------------------------------------------------------------
(* types.rs: Confidence (derived Ord: Low < Medium < High) and candidates  *)

Low == 0
Medium == 1
High == 2
Confidence == {Low, Medium, High}

\* ResolutionCandidate { content, confidence, strategy }
Candidate(content, confidence, strategy) ==
    [content |-> content, confidence |-> confidence, strategy |-> strategy]

\* Option: <<>> is None, <<v>> is Some(v)
None == <<>>
Some(v) == <<v>>

\* MergeScenario::new
Scenario(b, l, r) == [base |-> b, left |-> l, right |-> r]

-----------------------------------------------------------------------------
(* patterns.rs                                                             *)

\* the characters of the model in their byte order (String's Ord)
CharOrder == <<NL, SP, "#", "(", "a", "b", "c", "d", "e", "f", "i", "l", "m", "n",
               "o", "p", "q", "r", "s", "t", "u", "x", "y">>

CharCode(c) == CHOOSE i \in DOMAIN CharOrder : CharOrder[i] = c

RECURSIVE StrLess(_, _)
\* a < b for Strings
StrLess(a, b) ==
    IF b = <<>> THEN FALSE
    ELSE IF a = <<>> THEN TRUE
    ELSE IF Head(a) = Head(b) THEN StrLess(Tail(a), Tail(b))
    ELSE CharCode(Head(a)) < CharCode(Head(b))

RECURSIVE InsertSorted(_, _)
InsertSorted(sorted, x) ==
    IF sorted = <<>> THEN <<x>>
    ELSE IF StrLess(x, Head(sorted)) THEN <<x>> \o sorted
    ELSE <<Head(sorted)>> \o InsertSorted(Tail(sorted), x)

RECURSIVE SortStrings(_)
\* Vec<String>::sort
SortStrings(ss) ==
    IF ss = <<>> THEN <<>> ELSE InsertSorted(SortStrings(SubSeq(ss, 1, Len(ss) - 1)), ss[Len(ss)])

\* normalize_whitespace: split_whitespace, joined by one space
normalize_whitespace(s) == Join(SplitWhitespace(s), <<SP>>)

kw_import == <<"i", "m", "p", "o", "r", "t", SP>>
kw_from == <<"f", "r", "o", "m", SP>>
kw_use == <<"u", "s", "e", SP>>
kw_include == <<"#", "i", "n", "c", "l", "u", "d", "e">>
kw_require == <<"r", "e", "q", "u", "i", "r", "e", "(">>
kw_const == <<"c", "o", "n", "s", "t", SP>>
kw_import_call == <<"i", "m", "p", "o", "r", "t", "(">>

is_import_line(line) ==
    LET trimmed == Trim(line)
    IN  \/ StartsWith(trimmed, kw_import)
        \/ StartsWith(trimmed, kw_from)
        \/ StartsWith(trimmed, kw_use)
        \/ StartsWith(trimmed, kw_include)
        \/ StartsWith(trimmed, kw_require)
        \/ /\ StartsWith(trimmed, kw_const)
           /\ (Contains(trimmed, kw_require) \/ Contains(trimmed, kw_import_call))

\* Rule 1: whitespace-only
WhitespaceOnly_matches(s) ==
    LET base_norm == normalize_whitespace(s.base)
        left_norm == normalize_whitespace(s.left)
        right_norm == normalize_whitespace(s.right)
    IN  (base_norm = left_norm /\ base_norm = right_norm) \/ left_norm = right_norm

WhitespaceOnly_resolve(s) == s.left

\* Rule 2: identical-change
IdenticalChange_matches(s) == s.left = s.right /\ s.left # s.base

IdenticalChange_resolve(s) == s.left

\* Rule 3: both-add-lines
BothAddLines_matches(s) ==
    IF Trim(s.base) # <<>> THEN FALSE
    ELSE Trim(s.left) # <<>> /\ Trim(s.right) # <<>>

BothAddLines_resolve(s) ==
    (IF ~EndsWith(s.left, <<NL>>) THEN s.left \o <<NL>> ELSE s.left) \o s.right

\* Rule 4: one-empty
OneEmpty_matches(s) ==
    LET left_empty == Trim(s.left) = <<>>
        right_empty == Trim(s.right) = <<>>
    IN  (left_empty /\ ~right_empty) \/ (~left_empty /\ right_empty)

OneEmpty_resolve(s) == IF Trim(s.left) = <<>> THEN s.right ELSE s.left

\* Rule 5: prefix-suffix
PrefixSuffix_matches(s) ==
    LET left == Trim(s.left)
        right == Trim(s.right)
    IN  IF left = right THEN FALSE
        ELSE \/ StartsWith(left, right)
             \/ StartsWith(right, left)
             \/ EndsWith(left, right)
             \/ EndsWith(right, left)

PrefixSuffix_resolve(s) ==
    IF Len(Trim(s.left)) >= Len(Trim(s.right)) THEN s.left ELSE s.right

\* Rule 6: import-union
all_imports(text) ==
    \A i \in DOMAIN Lines(text) :
        Trim(Lines(text)[i]) # <<>> => is_import_line(Lines(text)[i])

ImportUnion_matches(s) == all_imports(s.base) /\ all_imports(s.left) /\ all_imports(s.right)

RECURSIVE CollectImports(_, _)
CollectImports(lines, imports) ==
    IF lines = <<>> THEN imports
    ELSE LET trimmed == Trim(Head(lines))
         IN  IF trimmed # <<>> /\ trimmed \notin Range(imports)
             THEN CollectImports(Tail(lines), Append(imports, trimmed))
             ELSE CollectImports(Tail(lines), imports)

\* an import-union that forgets to sort
ImportUnion_resolve_unsorted(s) ==
    Join(CollectImports(Lines(s.left) \o Lines(s.right), <<>>), <<NL>>)

ImportUnion_resolve(s) ==
    Join(SortStrings(CollectImports(Lines(s.left) \o Lines(s.right), <<>>)), <<NL>>)

\* Rule 7: adjacent-edit
AdjacentEdit_matches(s) ==
    LET base_lines == Lines(s.base)
        left_lines == Lines(s.left)
        right_lines == Lines(s.right)
    IN  IF Len(base_lines) # Len(left_lines) \/ Len(base_lines) # Len(right_lines)
        THEN FALSE
        ELSE IF \E i \in DOMAIN base_lines :
                    base_lines[i] # left_lines[i] /\ base_lines[i] # right_lines[i]
        THEN FALSE
        ELSE /\ \E i \in DOMAIN base_lines : base_lines[i] # left_lines[i]
             /\ \E i \in DOMAIN base_lines : base_lines[i] # right_lines[i]

\* an adjacent-edit that looks at right's change first and then only at base
AdjacentEdit_resolve_right_only(s) ==
    Join([i \in DOMAIN Lines(s.base) |->
             IF Lines(s.base)[i] # Lines(s.right)[i] THEN Lines(s.right)[i]
             ELSE Lines(s.base)[i]],
         <<NL>>)

AdjacentEdit_resolve(s) ==
    LET base_lines == Lines(s.base)
        left_lines == Lines(s.left)
        right_lines == Lines(s.right)
    IN  Join([i \in DOMAIN base_lines |->
                 IF base_lines[i] # left_lines[i] THEN left_lines[i]
                 ELSE IF base_lines[i] # right_lines[i] THEN right_lines[i]
                 ELSE base_lines[i]],
             <<NL>>)

\* a registry that consults both-add-lines before the others
PatternRegistry_both_add_first ==
    <<"both-add-lines", "whitespace-only", "identical-change", "one-empty",
      "prefix-suffix", "import-union", "adjacent-edit">>

\* PatternRegistry::new: the rules, in evaluation order
PatternRegistry ==
    <<"whitespace-only", "identical-change", "both-add-lines", "one-empty",
      "prefix-suffix", "import-union", "adjacent-edit">>

RuleMatches(rule, s) ==
    CASE rule = "whitespace-only" -> WhitespaceOnly_matches(s)
      [] rule = "identical-change" -> IdenticalChange_matches(s)
      [] rule = "both-add-lines" -> BothAddLines_matches(s)
      [] rule = "one-empty" -> OneEmpty_matches(s)
      [] rule = "prefix-suffix" -> PrefixSuffix_matches(s)
      [] rule = "import-union" -> ImportUnion_matches(s)
      [] rule = "adjacent-edit" -> AdjacentEdit_matches(s)

RuleResolve(rule, s) ==
    CASE rule = "whitespace-only" -> WhitespaceOnly_resolve(s)
      [] rule = "identical-change" -> IdenticalChange_resolve(s)
      [] rule = "both-add-lines" -> BothAddLines_resolve(s)
      [] rule = "one-empty" -> OneEmpty_resolve(s)
      [] rule = "prefix-suffix" -> PrefixSuffix_resolve(s)
      [] rule = "import-union" -> ImportUnion_resolve(s)
      [] rule = "adjacent-edit" -> AdjacentEdit_resolve(s)

RuleConfidence(rule) ==
    CASE rule \in {"whitespace-only", "identical-change", "import-union", "adjacent-edit"} -> High
      [] rule \in {"both-add-lines", "one-empty", "prefix-suffix"} -> Medium

RuleCandidate(rule, s) == Candidate(RuleResolve(rule, s), RuleConfidence(rule), "PatternRule")

RECURSIVE FirstMatch(_, _)
FirstMatch(rules, s) ==
    IF rules = <<>> THEN None
    ELSE IF RuleMatches(Head(rules), s) THEN Some(RuleCandidate(Head(rules), s))
    ELSE FirstMatch(Tail(rules), s)

\* PatternRegistry::try_resolve: the first matching rule's candidate
try_resolve(s) == FirstMatch(PatternRegistry, s)

RECURSIVE AllMatches(_, _)
AllMatches(rules, s) ==
    IF rules = <<>> THEN <<>>
    ELSE (IF RuleMatches(Head(rules), s) THEN <<RuleCandidate(Head(rules), s)>> ELSE <<>>)
         \o AllMatches(Tail(rules), s)

\* PatternRegistry::try_resolve_all: every matching rule's candidate
try_resolve_all(s) == AllMatches(PatternRegistry, s)

-----------------------------------------------------------------------------
(* search.rs                                                               *)

\* SearchConfig::default: the weights, in hundredths (0.45, 0.45, 0.1)
left_weight == 45
right_weight == 45
base_penalty == 10

\* SearchConfig { max_candidates, max_generations, population_size }
SearchConfig(mc, mg, ps) ==
    [max_candidates |-> mc, max_generations |-> mg, population_size |-> ps]

Tokens(s) == Range(SplitWhitespace(s))

\* jaccard_similarity of two token sets, as the fraction <<numerator, denominator>>
JaccardOfTokens(ta, tb) ==
    IF ta = {} /\ tb = {} THEN <<1, 1>>
    ELSE <<Cardinality(ta \cap tb), Cardinality(ta \cup tb)>>

\* jaccard_similarity
jaccard_similarity(a, b) == JaccardOfTokens(Tokens(a), Tokens(b))

\* fitness of a candidate's tokens against the tokens of left, right and base,
\* in hundredths, as the fraction <<numerator, denominator>>
FitnessOfTokens(tc, tl, tr, tb) ==
    LET l == JaccardOfTokens(tc, tl)
        r == JaccardOfTokens(tc, tr)
        b == JaccardOfTokens(tc, tb)
    IN  <<left_weight * l[1] * r[2] * b[2] + right_weight * r[1] * l[2] * b[2]
              - base_penalty * b[1] * l[2] * r[2],
          l[2] * r[2] * b[2]>>

\* fitness
fitness(candidate, s) ==
    FitnessOfTokens(Tokens(candidate), Tokens(s.left), Tokens(s.right), Tokens(s.base))

RECURSIVE InterleaveFrom(_, _, _)
InterleaveFrom(left, right, i) ==
    IF i > Max(Len(left), Len(right)) THEN <<>>
    ELSE (IF i <= Len(left) THEN <<left[i]>> ELSE <<>>)
         \o (IF i <= Len(right) /\ (i > Len(left) \/ left[i] # right[i])
             THEN <<right[i]>> ELSE <<>>)
         \o InterleaveFrom(left, right, i + 1)

\* interleave_lines
interleave_lines(left, right) == Join(InterleaveFrom(left, right, 1), <<NL>>)

\* format!("{}\n{}", a, b)
FormatPair(a, b) == a \o <<NL>> \o b

\* generate_chunk_combinations
generate_chunk_combinations(left, right) ==
    IF left = <<>> \/ right = <<>> THEN <<>>
    ELSE [split \in 1..(Len(left) - 1) |->
             FormatPair(Join(SubSeq(left, 1, split), <<NL>>),
                        Join(SubSeq(right, Min(split, Len(right)) + 1, Len(right)), <<NL>>))]
         \o [split \in 1..(Len(right) - 1) |->
             FormatPair(Join(SubSeq(right, 1, split), <<NL>>),
                        Join(SubSeq(left, Min(split, Len(left)) + 1, Len(left)), <<NL>>))]

\* generate_line_selections
generate_line_selections(left, right) ==
    LET n == Min(Len(left), Len(right))
    IN  IF n = 0 THEN <<>>
        ELSE << Join(SubSeq(left, 1, n), <<NL>>),
                Join(SubSeq(right, 1, n), <<NL>>),
                Join([i \in 1..n |-> IF (i - 1) % 2 = 0 THEN left[i] ELSE right[i]], <<NL>>) >>

\* crossover: the first half of a's lines, the second half of b's
crossover(a, b) ==
    LET a_lines == Lines(a)
        b_lines == Lines(b)
        mid_a == Len(a_lines) \div 2
        mid_b == Len(b_lines) \div 2
    IN  Join(SubSeq(a_lines, 1, mid_a) \o SubSeq(b_lines, mid_b + 1, Len(b_lines)), <<NL>>)

\* mutate_swap: swap the two middle lines
mutate_swap(candidate) ==
    LET lines == Lines(candidate)
        mid == Len(lines) \div 2
    IN  IF Len(lines) >= 2
        THEN Join([lines EXCEPT ![mid] = lines[mid + 1], ![mid + 1] = lines[mid]], <<NL>>)
        ELSE Join(lines, <<NL>>)

RECURSIVE ScoreWith(_, _, _, _)
\* the (candidate, fitness) pairs of a population, given the scenario's tokens
ScoreWith(pop, tl, tr, tb) ==
    IF pop = <<>> THEN <<>>
    ELSE <<<<Head(pop), FitnessOfTokens(Tokens(Head(pop)), tl, tr, tb)>>>>
         \o ScoreWith(Tail(pop), tl, tr, tb)

\* the (candidate, fitness(candidate, s)) pairs of a population
Score(pop, s) == ScoreWith(pop, Tokens(s.left), Tokens(s.right), Tokens(s.base))

\* a.1 > b.1 for two scored candidates
ScoreGreater(a, b) == a[2][1] * b[2][2] > b[2][1] * a[2][2]

RECURSIVE InsertByFitness(_, _)
InsertByFitness(sorted, x) ==
    IF sorted = <<>> THEN <<x>>
    ELSE IF ScoreGreater(x, Head(sorted)) THEN <<x>> \o sorted
    ELSE <<Head(sorted)>> \o InsertByFitness(Tail(sorted), x)

RECURSIVE SortScored(_)
\* sort_by(|a, b| b.1.partial_cmp(&a.1)): descending, stable
SortScored(scored) ==
    IF scored = <<>> THEN <<>>
    ELSE InsertByFitness(SortScored(SubSeq(scored, 1, Len(scored) - 1)), scored[Len(scored)])

RECURSIVE Firsts(_)
Firsts(scored) == IF scored = <<>> THEN <<>> ELSE <<Head(scored)[1]>> \o Firsts(Tail(scored))

\* the population in descending order of fitness
SortByFitness(pop, s) == Firsts(SortScored(Score(pop, s)))

RECURSIVE DedupStrings(_, _)
\* retain(|c| seen.insert(c.clone())): the first occurrence of each string
DedupStrings(ss, seen) ==
    IF ss = <<>> THEN <<>>
    ELSE IF Head(ss) \in seen THEN DedupStrings(Tail(ss), seen)
    ELSE <<Head(ss)>> \o DedupStrings(Tail(ss), seen \cup {Head(ss)})

Take(ss, n) == SubSeq(ss, 1, Min(n, Len(ss)))

\* select_best
\* a selection that keeps the duplicates
select_best_keep_duplicates(population, s, target_size) ==
    Take(SortByFitness(population, s), target_size)

select_best(population, s, target_size) ==
    Take(DedupStrings(SortByFitness(population, s), {}), target_size)

\* the pairs (i, j), i < j, in the order of the two crossover loops
RECURSIVE PairsFrom(_, _, _)
PairsFrom(i, j, n) ==
    IF i >= n THEN <<>>
    ELSE IF j > n THEN PairsFrom(i + 1, i + 2, n)
    ELSE <<<<i, j>>>> \o PairsFrom(i, j + 1, n)

\* one generation: new_pop of crossovers, then mutations, up to population_size
NewPop(population, cfg) ==
    LET pairs == Take(PairsFrom(1, 2, Len(population)), cfg.population_size)
        crossed == [k \in DOMAIN pairs |-> crossover(population[pairs[k][1]], population[pairs[k][2]])]
        room == Max(cfg.population_size - Len(crossed), 0)
        mutated == [k \in 1..Min(room, Len(population)) |-> mutate_swap(population[k])]
    IN  crossed \o mutated

RECURSIVE Evolve(_, _, _, _)
\* the generations still to run
Evolve(population, s, cfg, gens) ==
    IF gens = 0 THEN population
    ELSE Evolve(select_best(population \o NewPop(population, cfg), s, cfg.population_size),
                s, cfg, gens - 1)

\* the seven seeding strategies of search_resolve
InitialPopulation(s) ==
    <<FormatPair(s.left, s.right), FormatPair(s.right, s.left), s.left, s.right,
      interleave_lines(Lines(s.left), Lines(s.right))>>
    \o generate_chunk_combinations(Lines(s.left), Lines(s.right))
    \o generate_line_selections(Lines(s.left), Lines(s.right))

\* a search that returns no candidate
search_resolve_nothing(s, cfg) == <<>>

\* a search whose candidates are Medium
search_resolve_medium(s, cfg) ==
    LET population == Evolve(InitialPopulation(s), s, cfg, cfg.max_generations)
        scored == DedupStrings(SortByFitness(population, s), {})
        top == Take(scored, cfg.max_candidates)
    IN  [i \in DOMAIN top |-> Candidate(top[i], Medium, "SearchBased")]

\* search_resolve
search_resolve(s, cfg) ==
    LET population == Evolve(InitialPopulation(s), s, cfg, cfg.max_generations)
        scored == DedupStrings(SortByFitness(population, s), {})
        top == Take(scored, cfg.max_candidates)
    IN  [i \in DOMAIN top |-> Candidate(top[i], Low, "SearchBased")]

-----------------------------------------------------------------------------
(* resolver.rs: resolve_conflict                                           *)
(*                                                                         *)
(* The CST of a text comes from tree-sitter, an external crate.  ext holds *)
(* what the call gets from it and from the tree stages run on its trees:   *)
(*   ext.parse    the result of parse_to_cst on base, left and right,      *)
(*   ext.amalgam  the AmalgamResult of amalgamate on the three trees,      *)
(*   ext.vsa      the ranked candidates of resolve_via_vsa on them.        *)

\* ResolverConfig { auto_accept_threshold, max_vsa_candidates, search_config, language }
ResolverConfig(threshold, max_vsa, search_config, language) ==
    [auto_accept_threshold |-> threshold, max_vsa_candidates |-> max_vsa,
     search_config |-> search_config, language |-> language]

Ok(v) == [ok |-> TRUE, value |-> v]
Err(e) == [ok |-> FALSE, error |-> e]

\* the three parse_to_cst(..)? of try_structured_merge and try_vsa_resolve
ParseAll(ext) ==
    IF ext.parse.base # "Ok" THEN Err(ext.parse.base)
    ELSE IF ext.parse.left # "Ok" THEN Err(ext.parse.left)
    ELSE IF ext.parse.right # "Ok" THEN Err(ext.parse.right)
    ELSE Ok("trees")

\* try_structured_merge: Err(ParseError), Ok(None) or Ok(Some(MergeResult))
try_structured_merge(ext) ==
    IF ~ParseAll(ext).ok THEN ParseAll(ext)
    ELSE IF ext.amalgam.kind = "Merged" THEN Ok(Some(Resolved(ext.amalgam.source)))
    ELSE Ok(None)

\* try_vsa_resolve: Err(ParseError) or Ok(candidates)
try_vsa_resolve(ext) ==
    IF ~ParseAll(ext).ok THEN ParseAll(ext) ELSE Ok(ext.vsa)

\* the locals of resolve_conflict; returned is set by a `return`
Frame(cands, tried, res, returned) ==
    [candidates |-> cands, strategies_tried |-> tried, resolution |-> res,
     returned |-> returned]

\* what Strategy 1 does with the registry's answer
PatternFrame(hit, cfg) ==
    IF hit # None
    THEN IF hit[1].confidence >= cfg.auto_accept_threshold
         THEN Frame(<<hit[1]>>, <<"PatternRule">>, Some(hit[1]), TRUE)
         ELSE Frame(<<hit[1]>>, <<"PatternRule">>, None, FALSE)
    ELSE Frame(<<>>, <<"PatternRule">>, None, FALSE)

\* Strategy 1: pattern rules
PatternStage(s, cfg) == PatternFrame(try_resolve(s), cfg)

\* a Strategy 2 that hands a ParseError on with `?`: the call ends there
StructuredStage_propagates(f, cfg, ext) ==
    IF cfg.language = None THEN f
    ELSE LET tried == Append(f.strategies_tried, "StructuredMerge")
             result == try_structured_merge(ext)
         IN  IF ~result.ok THEN Frame(f.candidates, tried, None, TRUE)
             ELSE IF result.value # None /\ result.value[1].kind = "Resolved"
             THEN Frame(<<Candidate(result.value[1].content, High, "StructuredMerge")>>,
                        tried, Some(Candidate(result.value[1].content, High, "StructuredMerge")), TRUE)
             ELSE Frame(f.candidates, tried, None, FALSE)

\* a Strategy 2 that keeps a merged result as one more candidate and goes on
StructuredFrame_no_return(f, tried, result, cfg) ==
    IF result.ok /\ result.value # None /\ result.value[1].kind = "Resolved"
    THEN Frame(Append(f.candidates, Candidate(result.value[1].content, High, "StructuredMerge")),
               tried, None, FALSE)
    ELSE Frame(f.candidates, tried, None, FALSE)

\* what Strategy 2 does with the result of try_structured_merge
StructuredFrame(f, tried, result, cfg) ==
    IF result.ok /\ result.value # None /\ result.value[1].kind = "Resolved"
    THEN IF High >= cfg.auto_accept_threshold
         THEN Frame(<<Candidate(result.value[1].content, High, "StructuredMerge")>>, tried,
                    Some(Candidate(result.value[1].content, High, "StructuredMerge")), TRUE)
         ELSE Frame(Append(f.candidates, Candidate(result.value[1].content, High, "StructuredMerge")),
                    tried, None, FALSE)
    ELSE Frame(f.candidates, tried, None, FALSE)

\* Strategy 2: structured tree merge
StructuredStage(f, cfg, ext) ==
    IF cfg.language = None THEN f
    ELSE StructuredFrame(f, Append(f.strategies_tried, "StructuredMerge"),
                         try_structured_merge(ext), cfg)

\* a Strategy 3 that returns at once when its best candidate is acceptable
VsaStage_early_exit(f, cfg, ext) ==
    IF cfg.language = None THEN f
    ELSE LET tried == Append(f.strategies_tried, "VersionSpaceAlgebra")
             result == try_vsa_resolve(ext)
         IN  IF result.ok /\ result.value # <<>>
                /\ result.value[1].confidence >= cfg.auto_accept_threshold
             THEN Frame(<<result.value[1]>>, tried, Some(result.value[1]), TRUE)
             ELSE IF result.ok
             THEN Frame(f.candidates \o result.value, tried, None, FALSE)
             ELSE Frame(f.candidates, tried, None, FALSE)

\* a Strategy 3 that drops what try_vsa_resolve returns
VsaStage_drops(f, cfg, ext) ==
    IF cfg.language = None THEN f
    ELSE Frame(f.candidates, Append(f.strategies_tried, "VersionSpaceAlgebra"), None, FALSE)

\* Strategy 3: version space algebra
VsaStage(f, cfg, ext) ==
    IF cfg.language = None THEN f
    ELSE LET tried == Append(f.strategies_tried, "VersionSpaceAlgebra")
             result == try_vsa_resolve(ext)
         IN  IF result.ok
             THEN Frame(f.candidates \o result.value, tried, None, FALSE)
             ELSE Frame(f.candidates, tried, None, FALSE)

RECURSIVE InsertByConfidence(_, _)
InsertByConfidence(sorted, c) ==
    IF sorted = <<>> THEN <<c>>
    ELSE IF c.confidence > Head(sorted).confidence THEN <<c>> \o sorted
    ELSE <<Head(sorted)>> \o InsertByConfidence(Tail(sorted), c)

RECURSIVE SortByConfidence(_)
\* candidates.sort_by(|a, b| b.confidence.cmp(&a.confidence)): descending, stable
SortByConfidence(cands) ==
    IF cands = <<>> THEN <<>>
    ELSE InsertByConfidence(SortByConfidence(SubSeq(cands, 1, Len(cands) - 1)),
                            cands[Len(cands)])

\* a deduplication that keeps every candidate
DedupByContent_keep_all(cands, seen) == cands

RECURSIVE DedupByContent(_, _)
\* candidates.retain(|c| seen.insert(c.content.clone()))
DedupByContent(cands, seen) ==
    IF cands = <<>> THEN <<>>
    ELSE IF Head(cands).content \in seen THEN DedupByContent(Tail(cands), seen)
    ELSE <<Head(cands)>> \o DedupByContent(Tail(cands), seen \cup {Head(cands).content})

\* candidates.first().filter(|c| c.confidence >= threshold)
SelectResolution(cands, cfg) ==
    IF cands # <<>> /\ cands[1].confidence >= cfg.auto_accept_threshold
    THEN Some(cands[1]) ELSE None

\* the ResolverOutput of the final ranking
RankedFrame(ranked, tried, cfg) == Frame(ranked, tried, SelectResolution(ranked, cfg), TRUE)

\* Strategy 4: search, then sort, deduplicate and select
SearchStage(f, s, cfg) ==
    RankedFrame(DedupByContent(SortByConfidence(f.candidates
                                                 \o search_resolve(s, cfg.search_config)), {}),
                Append(f.strategies_tried, "SearchBased"), cfg)

\* a strategy runs unless the call has returned
ThenStructured(f, cfg, ext) == IF f.returned THEN f ELSE StructuredStage(f, cfg, ext)
ThenVsa(f, cfg, ext) == IF f.returned THEN f ELSE VsaStage(f, cfg, ext)
ThenSearch(f, s, cfg) == IF f.returned THEN f ELSE SearchStage(f, s, cfg)

\* resolve_conflict, as a function of its inputs
resolve_conflict(s, cfg, ext) ==
    ThenSearch(ThenVsa(ThenStructured(PatternStage(s, cfg), cfg, ext), cfg, ext), s, cfg)

-----------------------------------------------------------------------------
(* resolver.rs: resolve_file                                               *)

marker_left == <<"<", "<", "<", "<", "<", "<", "<", SP, "L", "E", "F", "T">>
marker_base == <<"|", "|", "|", "|", "|", "|", "|", SP, "B", "A", "S", "E">>
marker_sep == <<"=", "=", "=", "=", "=", "=", "=">>
marker_right == <<">", ">", ">", ">", ">", ">", ">", SP, "R", "I", "G", "H", "T">>

\* FileResolverOutput { merged_content, conflicts, all_resolved }
FileResolverOutput(content, conflicts, all_resolved) ==
    [merged_content |-> content, conflicts |-> conflicts, all_resolved |-> all_resolved]

\* a Conflict hunk's part of the loop: the resolution's lines or the markers
StitchConflict(hunk, output, acc) ==
    IF output.resolution # None
    THEN <<acc[1] \o Lines(output.resolution[1].content), Append(acc[2], output), acc[3]>>
    ELSE <<acc[1] \o <<marker_left>> \o hunk.left \o <<marker_base>> \o hunk.base
                  \o <<marker_sep>> \o hunk.right \o <<marker_right>>,
           Append(acc[2], output), FALSE>>

\* the scenario of a Conflict hunk: its lines joined by "\n"
RegionOf(hunk) ==
    Scenario(Join(hunk.base, <<NL>>), Join(hunk.left, <<NL>>), Join(hunk.right, <<NL>>))

\* one hunk's part of the loop
StitchHunk(hunk, cfg, ext, acc) ==
    IF hunk.kind # "Conflict" THEN <<acc[1] \o hunk.lines, acc[2], acc[3]>>
    ELSE StitchConflict(hunk, resolve_conflict(RegionOf(hunk), cfg, ext), acc)

RECURSIVE StitchHunks(_, _, _, _)
\* the loop over the hunks: <<merged_parts, unresolved, all_resolved>>
StitchHunks(hunks, cfg, ext, acc) ==
    IF hunks = <<>> THEN acc
    ELSE StitchHunks(Tail(hunks), cfg, ext, StitchHunk(Head(hunks), cfg, ext, acc))

StitchedOutput(st) == FileResolverOutput(Join(st[1], <<NL>>), st[2], st[3])

\* resolve_file, given the hunks diff3_hunks yields for the three texts; ext is
\* what the tree stages yield for a conflict region (read only with a language)
resolve_file(hunks, cfg, ext) ==
    IF diff3_merge_of(hunks).kind = "Resolved"
    THEN FileResolverOutput(diff3_merge_of(hunks).content, <<>>, TRUE)
    ELSE StitchedOutput(StitchHunks(hunks, cfg, ext, <<(<<>>), (<<>>), TRUE>>))

-----------------------------------------------------------------------------
(* Inputs of the model.                                                    *)

\* the lines of the texts given to resolve_file
FileLineSet == {<<"a">>, <<"b">>}

\* a text of the given lines, the last one with or without its "\n"
TextOf(lines, terminated) ==
    IF terminated THEN PushLines(lines) ELSE Join(lines, <<NL>>)

FileTexts ==
    {TextOf(ls, t) : ls \in SeqsUpTo(FileLineSet, MaxLines), t \in BOOLEAN}

\* SearchConfig::default but for the sizes, which are kept small
SmallSearch == SearchConfig(MaxCandidates, MaxGenerations, PopulationSize)

NoExt == [parse |-> [base |-> "Ok", left |-> "Ok", right |-> "Ok"],
          amalgam |-> [kind |-> "Conflict"], vsa |-> <<>>]

\* the text-only configurations (language: None)
TextOnlyConfigs ==
    {ResolverConfig(t, MaxVsaCandidates, SmallSearch, None) : t \in Confidence}

NoFrame == Frame(<<>>, <<>>, None, FALSE)
NoFileOut == [out |-> FileResolverOutput(<<>>, <<>>, TRUE), hunks |-> <<>>,
              diff3_result |-> Resolved(<<>>), left_ops |-> <<>>, right_ops |-> <<>>]
NoScenario == Scenario(<<>>, <<>>, <<>>)
NoEnv == [changes_bl |-> <<>>, changes_br |-> <<>>, ext |-> NoExt]

-----------------------------------------------------------------------------
(* Specification of resolve_file: a Resolver is built, then called once.   *)

FileInit ==
    /\ pc = "idle"
    /\ config \in TextOnlyConfigs
    /\ scenario = NoScenario
    /\ env = NoEnv
    /\ candidates = <<>>
    /\ strategies_tried = <<>>
    /\ resolution = None
    /\ fileOut = NoFileOut

\* Resolver::resolve_file(base, left, right)
ResolveFile ==
    /\ pc = "idle"
    /\ \E b \in FileTexts, l \in FileTexts, r \in FileTexts :
       \E cl \in TextDiffChanges(b, l), cr \in TextDiffChanges(b, r) :
          /\ (l = r => cl = cr)
          /\ scenario' = Scenario(b, l, r)
          /\ env' = [changes_bl |-> cl, changes_br |-> cr, ext |-> NoExt]
          /\ fileOut' = [out |-> resolve_file(diff3_hunks(cl, cr), config, NoExt),
                         hunks |-> diff3_hunks(cl, cr),
                         diff3_result |-> diff3_merge_of(diff3_hunks(cl, cr)),
                         left_ops |-> extract_line_ops(cl),
                         right_ops |-> extract_line_ops(cr)]
    /\ pc' = "file_done"
    /\ UNCHANGED <<config, candidates, strategies_tried, resolution>>

FileNext == ResolveFile

SpecFile == FileInit /\ [][FileNext]_vars

-----------------------------------------------------------------------------
(* Claims about resolve_file (SpecFile).                                   *)

FileDone == pc = "file_done"

Terminated(text) == text = <<>> \/ text[Len(text)] = NL

\* the operations on base lines (Keep, Delete) of an op sequence, in order
BaseOps(ops) == SelectSeq(ops, LAMBDA o : o.op # "Insert")

\* how many base lines the ops before index i consume
BaseBefore(ops, i) == Cardinality({j \in 1..(i - 1) : ops[j].op # "Insert"})

\* the lines a side inserts at base position p (before base line p + 1)
InsertsAt(ops, p) ==
    IF \E i \in DOMAIN ops : ops[i].op = "Insert" /\ BaseBefore(ops, i) = p
    THEN ops[CHOOSE i \in DOMAIN ops : ops[i].op = "Insert" /\ BaseBefore(ops, i) = p].lines
    ELSE <<>>

BaseLen == Len(BaseOps(fileOut.left_ops))

\* both sides insert at one base position, and not the same lines
SharedInsertConflict ==
    \E p \in 0..BaseLen :
        /\ InsertsAt(fileOut.left_ops, p) # <<>>
        /\ InsertsAt(fileOut.right_ops, p) # <<>>
        /\ InsertsAt(fileOut.left_ops, p) # InsertsAt(fileOut.right_ops, p)

\* no base position receives inserted lines from both sides
NoSharedInsert ==
    \A p \in 0..BaseLen :
        InsertsAt(fileOut.left_ops, p) = <<>> \/ InsertsAt(fileOut.right_ops, p) = <<>>

\* C1: resolve_file(x, x, x) is resolved, reports no conflicts and returns exactly
\* x, whether or not x ends with a line terminator.
C1_Idempotence ==
    (FileDone /\ scenario.left = scenario.base /\ scenario.right = scenario.base)
        => /\ fileOut.out.all_resolved
           /\ fileOut.out.conflicts = <<>>
           /\ fileOut.out.merged_content = scenario.base

\* C2: if base = right the merged content is left, and if base = left it is right,
\* for every kind of edit on the changing side.
C2_OneSidedChange ==
    FileDone =>
        /\ (scenario.base = scenario.right
                => fileOut.out.merged_content = scenario.left)
        /\ (scenario.base = scenario.left
                => fileOut.out.merged_content = scenario.right)

\* C3: if left = right and left # base the file is resolved and the merged
\* content is left, the common change appearing once.  Stated for texts that
\* end with a line terminator, where the divergence of C1 plays no part.
C3_IdenticalChange ==
    (/\ FileDone
     /\ scenario.left = scenario.right
     /\ scenario.left # scenario.base
     /\ Terminated(scenario.base)
     /\ Terminated(scenario.left))
        => /\ fileOut.out.all_resolved
           /\ fileOut.out.merged_content = scenario.left

\* C4: when left and right insert different lines at the same base position,
\* the hunks hold a Conflict hunk and diff3_merge returns Conflict.
C4_ConflictDetected ==
    (FileDone /\ SharedInsertConflict)
        => /\ \E i \in DOMAIN fileOut.hunks : fileOut.hunks[i].kind = "Conflict"
           /\ fileOut.diff3_result.kind = "Conflict"

RECURSIVE ReferenceFrom(_, _, _)
\* the reference three-way merge from base position p on: at each position the
\* inserted lines, then the base line if both sides keep it
ReferenceFrom(left_ops, right_ops, p) ==
    LET n == Len(BaseOps(left_ops))
        here == InsertsAt(left_ops, p) \o InsertsAt(right_ops, p)
    IN  IF p >= n THEN here
        ELSE here
             \o (IF BaseOps(left_ops)[p + 1].op = "Keep" /\ BaseOps(right_ops)[p + 1].op = "Keep"
                 THEN BaseOps(left_ops)[p + 1].lines ELSE <<>>)
             \o ReferenceFrom(left_ops, right_ops, p + 1)

\* C5: when no base position receives inserted lines from both sides, diff3_merge
\* is Resolved, the file is all resolved, and the merged lines are the reference
\* merge: inserted lines at their position, a base line iff neither side deleted it.
C5_CleanMerge ==
    (FileDone /\ NoSharedInsert)
        => /\ fileOut.diff3_result.kind = "Resolved"
           /\ fileOut.out.all_resolved
           /\ Lines(fileOut.out.merged_content)
                = ReferenceFrom(fileOut.left_ops, fileOut.right_ops, 0)

\* C5 witness: both sides insert, at different positions, and one side deletes a
\* line the other keeps
C5_Witness ==
    /\ FileDone
    /\ NoSharedInsert
    /\ \E i \in DOMAIN fileOut.left_ops : fileOut.left_ops[i].op = "Insert"
    /\ \E i \in DOMAIN fileOut.right_ops : fileOut.right_ops[i].op = "Insert"
    /\ \E p \in 1..BaseLen :
          /\ BaseOps(fileOut.left_ops)[p].op = "Delete"
          /\ BaseOps(fileOut.right_ops)[p].op = "Keep"

\* the conflict region at base position p: nothing of base, the lines each
\* side inserted there, joined as resolve_file joins a Conflict hunk's lines
ConflictRegion(p) ==
    Scenario(<<>>, Join(InsertsAt(fileOut.left_ops, p), <<NL>>),
             Join(InsertsAt(fileOut.right_ops, p), <<NL>>))

\* the positions whose conflict region gets no accepted resolution
UnresolvedRegions ==
    {p \in 0..BaseLen :
        /\ InsertsAt(fileOut.left_ops, p) # <<>>
        /\ InsertsAt(fileOut.right_ops, p) # <<>>
        /\ InsertsAt(fileOut.left_ops, p) # InsertsAt(fileOut.right_ops, p)
        /\ resolve_conflict(ConflictRegion(p), config, env.ext).resolution = None}

\* the marker block of the region at position p, line by line
MarkerBlock(p) ==
    <<marker_left>> \o InsertsAt(fileOut.left_ops, p) \o <<marker_base>>
        \o <<marker_sep>> \o InsertsAt(fileOut.right_ops, p) \o <<marker_right>>

\* part occurs in whole as a run of consecutive elements
OccursIn(part, whole) ==
    \E i \in 0..(Len(whole) - Len(part)) :
        \A j \in 1..Len(part) : whole[i + j] = part[j]

MarkerLines == {marker_left, marker_base, marker_sep, marker_right}

\* C6: all_resolved is false iff some conflict region got no accepted
\* resolution; merged_content holds the marker block of exactly those regions
\* and no marker line otherwise.
C6_UnresolvedOutput ==
    FileDone =>
        /\ (fileOut.out.all_resolved = FALSE) <=> (UnresolvedRegions # {})
        /\ \A p \in UnresolvedRegions :
              OccursIn(MarkerBlock(p), Lines(fileOut.out.merged_content))
        /\ (UnresolvedRegions = {}
               => \A i \in DOMAIN Lines(fileOut.out.merged_content) :
                     Lines(fileOut.out.merged_content)[i] \notin MarkerLines)

-----------------------------------------------------------------------------
(* Specification of resolve_conflict: a Resolver is built, then called     *)
(* once; one action per strategy of the pipeline.                          *)

RegionLineSet == {<<"x">>, <<"y">>}

\* the region texts: lines joined by "\n", as resolve_file would pass them
RegionTexts == {Join(ls, <<NL>>) : ls \in SeqsUpTo(RegionLineSet, MaxLines)}

\* the base regions: only the line "x", which the sides keep, drop or replace by "y"
RegionBaseTexts == {Join(ls, <<NL>>) : ls \in SeqsUpTo({<<"x">>}, MaxLines)}

\* every threshold with and without a language, and the default threshold
\* with a language and no version space candidates allowed
AllConfigs ==
    {ResolverConfig(t, MaxVsaCandidates, SmallSearch, lang) :
        t \in Confidence, lang \in {None, Some("Rust")}}
    \cup {ResolverConfig(Medium, 0, SmallSearch, Some("Rust"))}

\* what the parse_to_cst calls return: the first Err ends the attempt, so the
\* texts after it are not parsed; a LanguageError is the grammar's and meets
\* the first call; equal texts parse alike
ParseOutcomes(b, l, r) ==
    {[base |-> e, left |-> "NotParsed", right |-> "NotParsed"] :
        e \in {"LanguageError", "ParseFailed"}}
    \cup {[base |-> "Ok", left |-> "ParseFailed", right |-> "NotParsed"] : x \in {l} \ {b}}
    \cup {[base |-> "Ok", left |-> "Ok", right |-> "ParseFailed"] : x \in {r} \ {b, l}}
    \cup {[base |-> "Ok", left |-> "Ok", right |-> "Ok"]}

AllOk(p) == p.base = "Ok" /\ p.left = "Ok" /\ p.right = "Ok"

\* what amalgamate returns for the three trees
Amalgams(l, r) == {[kind |-> "Conflict"]} \cup {[kind |-> "Merged", source |-> t] : t \in {l, r}}

\* what resolve_via_vsa returns: at most max_vsa_candidates candidates of
\* distinct content, the first Medium and the others Low; at least one when
\* max_vsa_candidates >= 1, since every version space that
\* build_version_space returns enumerates a tree
VsaLists(l, r, max) ==
    {[i \in DOMAIN cs |-> Candidate(cs[i], IF i = 1 THEN Medium ELSE Low, "VersionSpaceAlgebra")] :
        cs \in {c \in SeqsUpTo({l, r}, Min(max, 2)) :
                    /\ \A i, j \in DOMAIN c : i # j => c[i] # c[j]
                    /\ max >= 1 => c # <<>>}}

\* the outcomes of the tree stages resolve_conflict can meet
Exts(b, l, r, cfg) ==
    IF cfg.language = None THEN {NoExt}
    ELSE {[parse |-> p, amalgam |-> [kind |-> "Conflict"], vsa |-> <<>>] :
             p \in {q \in ParseOutcomes(b, l, r) : ~AllOk(q)}}
         \cup {[parse |-> p, amalgam |-> a, vsa |-> v] :
             p \in {q \in ParseOutcomes(b, l, r) : AllOk(q)},
             a \in Amalgams(l, r),
             v \in VsaLists(l, r, cfg.max_vsa_candidates)}

ConflictInit ==
    /\ pc = "idle"
    /\ config \in AllConfigs
    /\ scenario = NoScenario
    /\ env = NoEnv
    /\ candidates = <<>>
    /\ strategies_tried = <<>>
    /\ resolution = None
    /\ fileOut = NoFileOut

SetFrame(f, next) ==
    /\ candidates' = f.candidates
    /\ strategies_tried' = f.strategies_tried
    /\ resolution' = f.resolution
    /\ pc' = IF f.returned THEN "returned" ELSE next

CurrentFrame == Frame(candidates, strategies_tried, resolution, FALSE)

\* the call, its diff3_result and Strategy 1
PatternStep ==
    /\ pc = "idle"
    /\ \E b \in RegionBaseTexts, l \in RegionTexts, r \in RegionTexts :
       \E cl \in TextDiffChanges(b, l), cr \in TextDiffChanges(b, r) :
       \E ext \in Exts(b, l, r, config) :
          /\ (l = r => cl = cr)
          /\ scenario' = Scenario(b, l, r)
          /\ env' = [changes_bl |-> cl, changes_br |-> cr, ext |-> ext]
          /\ fileOut' = [NoFileOut EXCEPT !.diff3_result = diff3_merge_of(diff3_hunks(cl, cr))]
          /\ SetFrame(PatternStage(Scenario(b, l, r), config), "structured")
    /\ UNCHANGED config

\* Strategy 2
StructuredStep ==
    /\ pc = "structured"
    /\ SetFrame(StructuredStage(CurrentFrame, config, env.ext), "vsa")
    /\ UNCHANGED <<config, scenario, env, fileOut>>

\* Strategy 3
VsaStep ==
    /\ pc = "vsa"
    /\ SetFrame(VsaStage(CurrentFrame, config, env.ext), "search")
    /\ UNCHANGED <<config, scenario, env, fileOut>>

\* Strategy 4 and the final ranking
SearchStep ==
    /\ pc = "search"
    /\ SetFrame(SearchStage(CurrentFrame, scenario, config), "returned")
    /\ UNCHANGED <<config, scenario, env, fileOut>>

ConflictNext == PatternStep \/ StructuredStep \/ VsaStep \/ SearchStep

SpecConflict == ConflictInit /\ [][ConflictNext]_vars

-----------------------------------------------------------------------------
(* Claims about resolve_conflict (SpecConflict).                           *)

Returned == pc = "returned"

Last(seq) == seq[Len(seq)]

StrategyOrder == <<"PatternRule", "StructuredMerge", "VersionSpaceAlgebra", "SearchBased">>

StrategyIndex(st) == CHOOSE k \in DOMAIN StrategyOrder : StrategyOrder[k] = st

\* tried is an in-order subsequence of StrategyOrder
InStrategyOrder(tried) ==
    /\ \A i \in DOMAIN tried : tried[i] \in Range(StrategyOrder)
    /\ \A i, j \in DOMAIN tried : i < j => StrategyIndex(tried[i]) < StrategyIndex(tried[j])

Threshold == config.auto_accept_threshold

\* C7: in every ResolverOutput the candidates have pairwise distinct content and
\* non-increasing confidence, and resolution is Some exactly when the first
\* candidate exists and meets the threshold, and then it is that candidate.
C7_Acceptance ==
    Returned =>
        /\ \A i, j \in DOMAIN candidates :
              i # j => candidates[i].content # candidates[j].content
        /\ \A i, j \in DOMAIN candidates :
              i < j => candidates[i].confidence >= candidates[j].confidence
        /\ (resolution # None)
              <=> (candidates # <<>> /\ candidates[1].confidence >= Threshold)
        /\ (resolution # None
              => resolution = Some(candidates[1]) /\ resolution[1].confidence >= Threshold)

\* C7 witness: the final ranking accepted a candidate, ranked a weaker one
\* after it, and dropped a search candidate whose content a VSA candidate had
C7_Witness ==
    /\ Returned
    /\ Last(strategies_tried) = "SearchBased"
    /\ resolution # None
    /\ \E i \in DOMAIN candidates : candidates[i].confidence < candidates[1].confidence
    /\ "VersionSpaceAlgebra" \in Range(strategies_tried)
    /\ \E c \in Range(try_vsa_resolve(env.ext).value) :
       \E d \in Range(search_resolve(scenario, config.search_config)) :
          c.content = d.content

\* the acceptable candidate Strategy 1 yields, if any
PatternYield ==
    LET hit == try_resolve(scenario)
    IN  IF hit # None /\ hit[1].confidence >= Threshold THEN hit ELSE None

\* the acceptable candidate Strategy 2 yields, if it runs and there is one
StructuredYield ==
    IF /\ "StructuredMerge" \in Range(strategies_tried)
       /\ try_structured_merge(env.ext).ok
       /\ try_structured_merge(env.ext).value # None
       /\ High >= Threshold
    THEN Some(Candidate(try_structured_merge(env.ext).value[1].content, High, "StructuredMerge"))
    ELSE None

\* the acceptable candidates Strategy 3 yields, if it runs
VsaYield ==
    IF "VersionSpaceAlgebra" \in Range(strategies_tried) /\ try_vsa_resolve(env.ext).ok
    THEN {c \in Range(try_vsa_resolve(env.ext).value) : c.confidence >= Threshold}
    ELSE {}

\* what C8 says of the order of the strategies and of the language
StrategyShape ==
    /\ strategies_tried # <<>>
    /\ strategies_tried[1] = "PatternRule"
    /\ InStrategyOrder(strategies_tried)
    /\ (config.language = None
          => /\ "StructuredMerge" \notin Range(strategies_tried)
             /\ "VersionSpaceAlgebra" \notin Range(strategies_tried))
    /\ (config.language = None /\ strategies_tried # <<"PatternRule", "SearchBased">>
          => try_resolve(scenario) # None)

C9_ParseErrorsSkipped ==
    (/\ pc \in {"vsa", "search", "returned"}
     /\ "StructuredMerge" \in Range(strategies_tried)
     /\ ~ParseAll(env.ext).ok)
        => /\ \A i \in DOMAIN candidates :
                 candidates[i].strategy \notin {"StructuredMerge", "VersionSpaceAlgebra"}
           /\ (Returned
                 => /\ strategies_tried = StrategyOrder
                    /\ \A c \in Range(search_resolve(scenario, config.search_config)) :
                          \E i \in DOMAIN candidates : candidates[i].content = c.content)

\* C9 witness: left failed to parse after base parsed, and the call returned
\* the search candidates
C9_Witness ==
    /\ Returned
    /\ env.ext.parse.base = "Ok"
    /\ env.ext.parse.left = "ParseFailed"
    /\ "StructuredMerge" \in Range(strategies_tried)
    /\ candidates # <<>>
    /\ \A i \in DOMAIN candidates : candidates[i].strategy \in {"PatternRule", "SearchBased"}

-----------------------------------------------------------------------------
(* Specification of the PatternRegistry: try_resolve, then try_resolve_all *)
(* on the same scenario.                                                   *)

PatternLineSet ==
    {<<"x">>, <<SP, "x">>, <<"u", "s", "e", SP, "a">>, <<"u", "s", "e", SP, "b">>}

PatternTexts == {Join(ls, <<NL>>) : ls \in SeqsUpTo(PatternLineSet, MaxLines)}

\* the base texts: up to two of the lines before either side reformatted or
\* renamed them
PatternBaseTexts ==
    {Join(ls, <<NL>>) : ls \in SeqsUpTo({<<"x">>, <<"u", "s", "e", SP, "a">>}, Min(MaxLines, 2))}

PatternsInit ==
    /\ pc = "idle"
    /\ config \in {ResolverConfig(Medium, MaxVsaCandidates, SmallSearch, None)}
    /\ scenario = NoScenario
    /\ env = NoEnv
    /\ candidates = <<>>
    /\ strategies_tried = <<>>
    /\ resolution = None
    /\ fileOut = NoFileOut

\* registry.try_resolve(&scenario); resolution holds the Option returned
TryResolve ==
    /\ pc = "idle"
    /\ \E b \in PatternBaseTexts, l \in PatternTexts, r \in PatternTexts :
          /\ scenario' = Scenario(b, l, r)
          /\ resolution' = try_resolve(Scenario(b, l, r))
    /\ pc' = "tried"
    /\ UNCHANGED <<config, env, candidates, strategies_tried, fileOut>>

\* registry.try_resolve_all(&scenario); candidates holds the Vec returned
TryResolveAll ==
    /\ pc = "tried"
    /\ candidates' = try_resolve_all(scenario)
    /\ pc' = "done"
    /\ UNCHANGED <<config, scenario, env, strategies_tried, resolution, fileOut>>

PatternsNext == TryResolve \/ TryResolveAll

SpecPatterns == PatternsInit /\ [][PatternsNext]_vars

\* the fixed evaluation order of the rules
FixedRuleOrder ==
    <<"whitespace-only", "identical-change", "both-add-lines", "one-empty",
      "prefix-suffix", "import-union", "adjacent-edit">>

\* the rules whose predicate matches the scenario, in the fixed order
MatchingRules == SelectSeq(FixedRuleOrder, LAMBDA rule : RuleMatches(rule, scenario))

\* C10: try_resolve returns the candidate of the first rule, in the fixed
\* order, whose predicate matches (None if none does), try_resolve_all one
\* candidate per matching rule in that order; so try_resolve is the first
\* element of try_resolve_all.
C10_RulePriority ==
    pc = "done" =>
        /\ candidates = [i \in DOMAIN MatchingRules |-> RuleCandidate(MatchingRules[i], scenario)]
        /\ resolution = IF MatchingRules = <<>> THEN None
                        ELSE Some(RuleCandidate(MatchingRules[1], scenario))
        /\ resolution = IF candidates = <<>> THEN None ELSE Some(candidates[1])

\* C10 witness: several rules match, the first is not the first of the order,
\* and a later match would have resolved to another content
C10_Witness ==
    /\ pc = "done"
    /\ Len(candidates) >= 2
    /\ MatchingRules[1] # "whitespace-only"
    /\ resolution = Some(candidates[1])
    /\ \E i \in DOMAIN candidates : candidates[i].content # candidates[1].content

-----------------------------------------------------------------------------
(* Specification of single pattern rules: a rule is asked whether it       *)
(* matches and, if so, for its candidate, as try_resolve_all does.         *)

ImportLineSet ==
    {<<"u", "s", "e", SP, "a">>, <<"u", "s", "e", SP, "b">>,
     <<SP, "u", "s", "e", SP, "b">>, <<SP>>}

ImportTexts == {Join(ls, <<NL>>) : ls \in SeqsUpTo(ImportLineSet, MaxLines)}

ImportBaseTexts == {<<>>, <<"u", "s", "e", SP, "a">>, <<"x">>}

AdjacentLineSet == {<<"x">>, <<"y">>, <<>>}

AdjacentTexts == {Join(ls, <<NL>>) : ls \in SeqsUpTo(AdjacentLineSet, MaxLines)}

RulesInit ==
    /\ pc = "idle"
    /\ config \in {ResolverConfig(Medium, MaxVsaCandidates, SmallSearch, None)}
    /\ scenario = NoScenario
    /\ env = NoEnv
    /\ candidates = <<>>
    /\ strategies_tried = <<>>
    /\ resolution = None
    /\ fileOut = NoFileOut

\* rule.matches(scenario), then the candidate of rule.resolve(scenario)
ApplyRule(rule, s) ==
    /\ scenario' = s
    /\ resolution' = IF RuleMatches(rule, s) THEN Some(RuleCandidate(rule, s)) ELSE None
    /\ UNCHANGED <<config, env, candidates, strategies_tried, fileOut>>

ApplyImportUnion ==
    /\ pc = "idle"
    /\ \E b \in ImportBaseTexts, l \in ImportTexts, r \in ImportTexts :
          ApplyRule("import-union", Scenario(b, l, r))
    /\ pc' = "import_union"

ApplyAdjacentEdit ==
    /\ pc = "idle"
    /\ \E b \in AdjacentTexts, l \in AdjacentTexts, r \in AdjacentTexts :
          ApplyRule("adjacent-edit", Scenario(b, l, r))
    /\ pc' = "adjacent_edit"

RulesNext == ApplyImportUnion \/ ApplyAdjacentEdit

SpecRules == RulesInit /\ [][RulesNext]_vars

RECURSIVE SplitOn(_, _, _)
\* the pieces of a text between the occurrences of a character
SplitOn(text, sep, cur) ==
    IF text = <<>> THEN <<cur>>
    ELSE IF Head(text) = sep THEN <<cur>> \o SplitOn(Tail(text), sep, <<>>)
    ELSE SplitOn(Tail(text), sep, Append(cur, Head(text)))

\* the trimmed non-empty lines of a text
TrimmedLines(text) == {Trim(Lines(text)[i]) : i \in DOMAIN Lines(text)} \ {<<>>}

\* C11: when import-union resolves a scenario, its content is the distinct
\* trimmed non-empty lines of left and right, each once, in ascending order,
\* joined by newlines, with High confidence.
C11_ImportUnionResult ==
    (pc = "import_union" /\ resolution # None) =>
        LET content == resolution[1].content
            out == IF content = <<>> THEN <<>> ELSE SplitOn(content, NL, <<>>)
        IN  /\ all_imports(scenario.base) /\ all_imports(scenario.left)
            /\ all_imports(scenario.right)
            /\ resolution[1].confidence = High
            /\ Range(out) = TrimmedLines(scenario.left) \cup TrimmedLines(scenario.right)
            /\ \A i \in 1..(Len(out) - 1) : StrLess(out[i], out[i + 1])

\* C11 witness: the sides share an import, one spells it with a leading blank,
\* and the sorted order is not the order of appearance
C11_Witness ==
    /\ pc = "import_union"
    /\ resolution # None
    /\ Lines(scenario.left)
          = << <<SP, "u", "s", "e", SP, "b">>, <<"u", "s", "e", SP, "a">> >>
    /\ <<"u", "s", "e", SP, "b">> \in Range(Lines(scenario.right))
    /\ resolution[1].content = <<"u", "s", "e", SP, "a", NL, "u", "s", "e", SP, "b">>

\* C12: adjacent-edit matches exactly when the three texts have the same number
\* of lines, no line is changed by both sides and each side changes a line; its
\* content then has as many lines, line i being left's if left changed it,
\* right's if right changed it, base's otherwise.
C12_AdjacentEditResult ==
    pc = "adjacent_edit" =>
        LET b == Lines(scenario.base)
            l == Lines(scenario.left)
            r == Lines(scenario.right)
            applies == /\ Len(b) = Len(l) /\ Len(b) = Len(r)
                       /\ \A i \in DOMAIN b : b[i] = l[i] \/ b[i] = r[i]
                       /\ \E i \in DOMAIN b : b[i] # l[i]
                       /\ \E i \in DOMAIN b : b[i] # r[i]
        IN  /\ (resolution # None) <=> applies
            /\ (resolution # None =>
                  LET out == SplitOn(resolution[1].content, NL, <<>>)
                  IN  /\ Len(out) = Len(b)
                      /\ resolution[1].confidence = High
                      /\ \A i \in DOMAIN b :
                            /\ (b[i] # l[i] => out[i] = l[i])
                            /\ (b[i] # r[i] => out[i] = r[i])
                            /\ (b[i] = l[i] /\ b[i] = r[i] => out[i] = b[i]))

\* C12 witness: left changed the first line, right the second
C12_Witness ==
    /\ pc = "adjacent_edit"
    /\ resolution # None
    /\ Len(Lines(scenario.base)) = 2
    /\ Lines(scenario.left)[1] # Lines(scenario.base)[1]
    /\ Lines(scenario.right)[2] # Lines(scenario.base)[2]

-----------------------------------------------------------------------------
(* types.rs: concrete syntax trees                                         *)

Ordered == "Ordered"
Unordered == "Unordered"

\* CstNode::Leaf
Leaf(id, kind, value) ==
    [type |-> "Leaf", id |-> id, kind |-> kind, value |-> value,
     ordering |-> Ordered, children |-> <<>>]

\* CstNode::Constructed
Constructed(id, kind, children) ==
    [type |-> "Constructed", id |-> id, kind |-> kind, value |-> <<>>,
     ordering |-> Ordered, children |-> children]

\* CstNode::List
List(id, kind, ordering, children) ==
    [type |-> "List", id |-> id, kind |-> kind, value |-> <<>>,
     ordering |-> ordering, children |-> children]

is_leaf(node) == node.type = "Leaf"

RECURSIVE size(_)
size(node) ==
    LET RECURSIVE Sum(_)
        Sum(cs) == IF cs = <<>> THEN 0 ELSE size(Head(cs)) + Sum(Tail(cs))
    IN  1 + Sum(node.children)

RECURSIVE collect_leaves(_)
\* the leaf values in pre-order
collect_leaves(node) ==
    LET RECURSIVE Each(_)
        Each(cs) == IF cs = <<>> THEN <<>> ELSE collect_leaves(Head(cs)) \o Each(Tail(cs))
    IN  IF is_leaf(node) THEN <<node.value>> ELSE Each(node.children)

to_source(node) == Concat(collect_leaves(node))

RECURSIVE structurally_equal(_, _)
structurally_equal(a, b) ==
    IF a.kind # b.kind THEN FALSE
    ELSE IF a.type = "Leaf" /\ b.type = "Leaf" THEN a.value = b.value
    ELSE IF a.type = "Constructed" /\ b.type = "Constructed" THEN
        /\ Len(a.children) = Len(b.children)
        /\ \A i \in DOMAIN a.children : structurally_equal(a.children[i], b.children[i])
    ELSE IF a.type = "List" /\ b.type = "List" THEN
        /\ a.ordering = b.ordering
        /\ Len(a.children) = Len(b.children)
        /\ \A i \in DOMAIN a.children : structurally_equal(a.children[i], b.children[i])
    ELSE FALSE

MatchPair(left, right, score) == [left |-> left, right |-> right, score |-> score]

-----------------------------------------------------------------------------
(* matcher.rs                                                              *)

can_match(left, right) ==
    IF is_leaf(left) # is_leaf(right) THEN FALSE ELSE left.kind = right.kind

\* lcs_length is the length of a longest common subsequence
lcs_length(a, b) == LcsLen(a, b)

tree_similarity(left, right) ==
    IF ~can_match(left, right) THEN 0
    ELSE IF is_leaf(left) /\ is_leaf(right)
         THEN (IF left.value = right.value THEN 1 ELSE 0)
    ELSE lcs_length(collect_leaves(left), collect_leaves(right))

\* score offered by matching left[i] with right[j] on top of dp[i-1][j-1]
YangMatchScore(left, right, i, j, diag) ==
    IF can_match(left[i], right[j]) THEN diag + tree_similarity(left[i], right[j]) ELSE 0

\* the dp and choice tables of yang_match, as one table of records
YangTable(left, right) ==
    LET n == Len(left)
        m == Len(right)
        cell[i \in 0..n, j \in 0..m] ==
            IF i = 0 \/ j = 0 THEN [dp |-> 0, choice |-> 0]
            ELSE LET match_score == YangMatchScore(left, right, i, j, cell[i - 1, j - 1].dp)
                     skip_left == cell[i - 1, j].dp
                     skip_right == cell[i, j - 1].dp
                 IN  IF match_score >= skip_left /\ match_score >= skip_right /\ match_score > 0
                     THEN [dp |-> match_score, choice |-> 1]
                     ELSE IF skip_left >= skip_right
                     THEN [dp |-> skip_left, choice |-> 2]
                     ELSE [dp |-> skip_right, choice |-> 3]
    IN  [i \in 0..n, j \in 0..m |-> cell[i, j]]

RECURSIVE YangTrace(_, _, _, _, _)
\* the trace back from (i, j); pairs come out last match first
YangTrace(left, right, table, i, j) ==
    IF i = 0 \/ j = 0 THEN <<>>
    ELSE IF table[i, j].choice = 1 THEN
        <<MatchPair(left[i].id, right[j].id, tree_similarity(left[i], right[j]))>>
            \o YangTrace(left, right, table, i - 1, j - 1)
    ELSE IF table[i, j].choice = 2 THEN YangTrace(left, right, table, i - 1, j)
    ELSE IF table[i, j].choice = 3 THEN YangTrace(left, right, table, i, j - 1)
    ELSE <<>>

Reverse(seq) == [i \in DOMAIN seq |-> seq[Len(seq) + 1 - i]]

yang_match(left, right) ==
    IF Len(left) = 0 \/ Len(right) = 0 THEN <<>>
    ELSE Reverse(YangTrace(left, right, YangTable(left, right), Len(left), Len(right)))

\* i64::MAX, the "no value yet" of minv and delta; every cost is far below it
i64_MAX == 1000000

MinOf(S) == CHOOSE x \in S : \A y \in S : x <= y

MaxOf(S) == CHOOSE x \in S : \A y \in S : x >= y

\* one round of the inner loop of hungarian_max: column j0 joins the tree,
\* minv and way are relaxed from its row, the potentials move by delta
RECURSIVE HungarianGrow(_, _, _, _)
HungarianGrow(cost, n, st, j0) ==
    LET used == [st.used EXCEPT ![j0] = TRUE]
        i0 == st.p[j0]
        free == {j \in 1..n : ~used[j]}
        cur == [j \in 1..n |-> cost[i0][j] - st.u[i0] - st.v[j]]
        minv1 == [j \in 0..n |->
                    IF j \in free /\ cur[j] < st.minv[j] THEN cur[j] ELSE st.minv[j]]
        way == [j \in 0..n |->
                    IF j \in free /\ cur[j] < st.minv[j] THEN j0 ELSE st.way[j]]
        delta == IF free = {} THEN i64_MAX ELSE MinOf({minv1[j] : j \in free})
        j1 == IF \E j \in free : minv1[j] < i64_MAX
              THEN MinOf({j \in free : minv1[j] = delta}) ELSE 0
        u == [r \in 0..n |->
                st.u[r] + delta * Cardinality({j \in 0..n : used[j] /\ st.p[j] = r})]
        v == [j \in 0..n |-> IF used[j] THEN st.v[j] - delta ELSE st.v[j]]
        minv == [j \in 0..n |-> IF used[j] THEN minv1[j] ELSE minv1[j] - delta]
        next == [u |-> u, v |-> v, p |-> st.p, way |-> way, minv |-> minv, used |-> used]
    IN  IF st.p[j1] = 0 THEN [st |-> next, j0 |-> j1]
        ELSE HungarianGrow(cost, n, next, j1)

RECURSIVE HungarianAugment(_, _, _)
\* the second loop: flip the assignment along way back to column 0
HungarianAugment(p, way, j0) ==
    LET j1 == way[j0]
        q == [p EXCEPT ![j0] = p[j1]]
    IN  IF j1 = 0 THEN q ELSE HungarianAugment(q, way, j1)

RECURSIVE HungarianRows(_, _, _, _)
\* the outer loop over the rows i..n
HungarianRows(cost, n, st, i) ==
    IF i > n THEN st
    ELSE LET start == [st EXCEPT !.p[0] = i,
                                 !.minv = [j \in 0..n |-> i64_MAX],
                                 !.used = [j \in 0..n |-> FALSE]]
             grown == HungarianGrow(cost, n, start, 0)
             p == HungarianAugment(grown.st.p, grown.st.way, grown.j0)
         IN  HungarianRows(cost, n, [grown.st EXCEPT !.p = p], i + 1)

\* an assignment that gives row i column i
hungarian_max_diagonal(weights, n) == [i \in 1..n |-> i]

\* an assignment that gives every row its heaviest column
hungarian_max_greedy(weights, n) ==
    [i \in 1..n |->
        MinOf({j \in 1..n : \A k \in 1..n : weights[i][j] >= weights[i][k]})]

\* hungarian_max: result[i] is the column assigned to row i (rows and columns
\* counted from 1 here, from 0 in the code)
hungarian_max(weights, n) ==
    IF n = 0 THEN <<>>
    ELSE LET max_w == MaxOf({weights[i][j] : i \in 1..n, j \in 1..n})
             cost == [i \in 1..n |-> [j \in 1..n |-> max_w - weights[i][j]]]
             zero == [j \in 0..n |-> 0]
             st == HungarianRows(cost, n,
                       [u |-> zero, v |-> zero, p |-> zero, way |-> zero,
                        minv |-> zero, used |-> [j \in 0..n |-> FALSE]], 1)
         IN  [i \in 1..n |->
                 IF \E j \in 1..n : st.p[j] = i
                 THEN MaxOf({j \in 1..n : st.p[j] = i}) ELSE 1]

\* the pairs bipartite_match keeps from an assignment
BipartitePairs(left, right, weights, assignment) ==
    LET keep(i) == /\ i <= Len(left) /\ assignment[i] <= Len(right)
                   /\ weights[i][assignment[i]] > 0
        RECURSIVE From(_)
        From(i) ==
            IF i > Len(assignment) THEN <<>>
            ELSE (IF keep(i)
                  THEN <<MatchPair(left[i].id, right[assignment[i]].id,
                                   weights[i][assignment[i]])>>
                  ELSE <<>>) \o From(i + 1)
    IN  From(1)

BipartiteWeights(left, right) ==
    LET dim == Max(Len(left), Len(right))
    IN  [i \in 1..dim |-> [j \in 1..dim |->
            IF i <= Len(left) /\ j <= Len(right) /\ can_match(left[i], right[j])
            THEN tree_similarity(left[i], right[j]) ELSE 0]]

bipartite_match(left, right) ==
    IF Len(left) = 0 \/ Len(right) = 0 THEN <<>>
    ELSE BipartitePairs(left, right, BipartiteWeights(left, right),
             hungarian_max(BipartiteWeights(left, right), Max(Len(left), Len(right))))

match_children(left_parent, right_parent, ordering) ==
    IF ordering = Ordered
    THEN yang_match(left_parent.children, right_parent.children)
    ELSE bipartite_match(left_parent.children, right_parent.children)

\* the child a HashMap from id to child returns for an id
ChildById(children, id) ==
    children[MaxOf({i \in DOMAIN children : children[i].id = id})]

HasChildId(children, id) == \E i \in DOMAIN children : children[i].id = id

RECURSIVE match_trees_recursive(_, _)
RECURSIVE MatchChildPairs(_, _, _)

\* the loop of match_trees_recursive over the matched children
MatchChildPairs(left, right, child_pairs) ==
    IF child_pairs = <<>> THEN <<>>
    ELSE (IF /\ HasChildId(left.children, Head(child_pairs).left)
             /\ HasChildId(right.children, Head(child_pairs).right)
          THEN match_trees_recursive(ChildById(left.children, Head(child_pairs).left),
                                     ChildById(right.children, Head(child_pairs).right))
          ELSE <<>>) \o MatchChildPairs(left, right, Tail(child_pairs))

match_trees_recursive(left, right) ==
    IF left.kind # right.kind THEN <<>>
    ELSE IF is_leaf(left) /\ is_leaf(right) THEN
        (IF left.value = right.value THEN <<MatchPair(left.id, right.id, 1)>> ELSE <<>>)
    ELSE IF is_leaf(left) # is_leaf(right) THEN <<>>
    ELSE (IF tree_similarity(left, right) > 0
          THEN <<MatchPair(left.id, right.id, tree_similarity(left, right))>>
          ELSE <<>>)
         \o MatchChildPairs(left, right,
                match_children(left, right,
                    IF left.type = "List" /\ right.type = "List"
                    THEN left.ordering ELSE Ordered))

match_trees(left, right) == match_trees_recursive(left, right)

-----------------------------------------------------------------------------
(* amalgamator.rs                                                          *)

AmalgamMerged(node) == [tag |-> "Merged", node |-> node]

AmalgamConflict(base, left, right) ==
    [tag |-> "Conflict", base |-> base, left |-> left, right |-> right]

\* the HashMap collected from pairs: a later pair replaces an earlier one
MatchMap(pairs) ==
    [k \in {pairs[i].left : i \in DOMAIN pairs} |->
        pairs[MaxOf({i \in DOMAIN pairs : pairs[i].left = k})].right]

reconstruct_node(template, children) ==
    IF is_leaf(template) THEN template ELSE [template EXCEPT !.children = children]

\* the last of the best candidates, as Iterator::max_by_key returns it
LastBest(bc, cands) ==
    LET best == MaxOf({tree_similarity(bc, cands[i]) : i \in DOMAIN cands})
    IN  cands[MaxOf({i \in DOMAIN cands : tree_similarity(bc, cands[i]) = best})]

build_child_match_map(base_children, other_children, match_map) ==
    LET by_id == {bc \in Range(base_children) :
                    /\ bc.id \in DOMAIN match_map
                    /\ HasChildId(other_children, match_map[bc.id])}
        matched_other == {ChildById(other_children, match_map[bc.id]).id : bc \in by_id}
        cands(bc) == SelectSeq(other_children,
                        LAMBDA oc : oc.id \notin matched_other /\ oc.kind = bc.kind)
        fallback == {bc \in Range(base_children) \ by_id :
                        /\ bc.id \notin {b.id : b \in by_id}
                        /\ cands(bc) # <<>>
                        /\ tree_similarity(bc, LastBest(bc, cands(bc))) > 0}
    IN  [id \in {bc.id : bc \in by_id \cup fallback} |->
            IF \E bc \in by_id : bc.id = id
            THEN ChildById(other_children, match_map[id])
            ELSE LET bc == CHOOSE c \in fallback : c.id = id
                 IN  LastBest(bc, cands(bc))]

deleted == Leaf(0, "deleted", <<>>)

\* first index of others, not yet used, whose child equals bc; 0 if none
FindUnused(bc, others, used) ==
    IF \E i \in DOMAIN others : i \notin used /\ structurally_equal(bc, others[i])
    THEN MinOf({i \in DOMAIN others : i \notin used /\ structurally_equal(bc, others[i])})
    ELSE 0

RECURSIVE UnorderedBase(_, _, _, _)
\* the loop of amalgamate_unordered over the base children
UnorderedBase(base_children, left_children, right_children, acc) ==
    IF base_children = <<>> THEN acc
    ELSE LET bc == Head(base_children)
             li == FindUnused(bc, left_children, acc.used_left)
             ri == FindUnused(bc, right_children, acc.used_right)
         IN  UnorderedBase(Tail(base_children), left_children, right_children,
                 [result |-> IF li # 0 /\ ri # 0 THEN Append(acc.result, bc) ELSE acc.result,
                  used_left |-> IF li # 0 THEN acc.used_left \cup {li} ELSE acc.used_left,
                  used_right |-> IF ri # 0 THEN acc.used_right \cup {ri} ELSE acc.used_right])

RECURSIVE UnorderedRight(_, _, _, _)
\* the loop over right's children: additions not yet in the result
UnorderedRight(right_children, used_right, i, result) ==
    IF i > Len(right_children) THEN result
    ELSE UnorderedRight(right_children, used_right, i + 1,
             IF /\ i \notin used_right
                /\ ~\E k \in DOMAIN result : structurally_equal(result[k], right_children[i])
             THEN Append(result, right_children[i]) ELSE result)

RECURSIVE UnusedChildren(_, _, _)
\* the children whose index is not used, in order
UnusedChildren(children, used, i) ==
    IF i > Len(children) THEN <<>>
    ELSE (IF i \in used THEN <<>> ELSE <<children[i]>>)
         \o UnusedChildren(children, used, i + 1)

UnorderedAcc(base, left, right) ==
    UnorderedBase(base.children, left.children, right.children,
        [result |-> <<>>, used_left |-> {}, used_right |-> {}])

\* an unordered merge that adds every unmatched child of right
amalgamate_unordered_all_right(base, left, right) ==
    LET acc == UnorderedAcc(base, left, right)
    IN  AmalgamMerged(reconstruct_node(base,
            acc.result \o UnusedChildren(left.children, acc.used_left, 1)
                       \o UnusedChildren(right.children, acc.used_right, 1)))

\* an unordered merge that adds right's additions before left's
amalgamate_unordered_right_first(base, left, right) ==
    LET acc == UnorderedAcc(base, left, right)
    IN  AmalgamMerged(reconstruct_node(base,
            UnorderedRight(right.children, acc.used_right, 1, acc.result)
                \o UnusedChildren(left.children, acc.used_left, 1)))

amalgamate_unordered(base, left, right) ==
    LET acc == UnorderedAcc(base, left, right)
    IN  AmalgamMerged(reconstruct_node(base,
            UnorderedRight(right.children, acc.used_right, 1,
                acc.result \o UnusedChildren(left.children, acc.used_left, 1))))

\* the loop of amalgamate_children over the base children; acc holds
\* merged_children, has_conflict, the conflict triple, used_left, used_right
RECURSIVE amalgamate_node(_, _, _, _, _, _)
RECURSIVE OrderedBase(_, _, _, _, _, _, _)
OrderedBase(base_children, bl_child_map, br_child_map, bl_map, br_map, lr_map, acc) ==
    IF base_children = <<>> THEN acc
    ELSE LET bc == Head(base_children)
             has_l == bc.id \in DOMAIN bl_child_map
             has_r == bc.id \in DOMAIN br_child_map
             step ==
               IF has_l /\ has_r THEN
                   LET lc == bl_child_map[bc.id]
                       rc == br_child_map[bc.id]
                       sub == amalgamate_node(bc, lc, rc, bl_map, br_map, lr_map)
                       seen == [acc EXCEPT !.used_left = @ \cup {lc.id},
                                           !.used_right = @ \cup {rc.id}]
                   IN  IF sub.tag = "Merged"
                       THEN [seen EXCEPT !.merged = Append(@, sub.node)]
                       ELSE [seen EXCEPT !.has_conflict = TRUE,
                                         !.conflict = <<sub.base, sub.left, sub.right>>,
                                         !.merged = Append(@, lc)]
               ELSE IF has_l THEN
                   LET lc == bl_child_map[bc.id]
                       seen == [acc EXCEPT !.used_left = @ \cup {lc.id}]
                   IN  IF structurally_equal(bc, lc) THEN seen
                       ELSE [seen EXCEPT !.has_conflict = TRUE,
                                         !.conflict = <<bc, lc, deleted>>]
               ELSE IF has_r THEN
                   LET rc == br_child_map[bc.id]
                       seen == [acc EXCEPT !.used_right = @ \cup {rc.id}]
                   IN  IF structurally_equal(bc, rc) THEN seen
                       ELSE [seen EXCEPT !.has_conflict = TRUE,
                                         !.conflict = <<bc, deleted, rc>>]
               ELSE acc
         IN  OrderedBase(Tail(base_children), bl_child_map, br_child_map,
                         bl_map, br_map, lr_map, step)

\* the children of a side that no base child was matched with
Inserted(children, used, child_map) ==
    SelectSeq(children,
        LAMBDA c : /\ c.id \notin used
                   /\ ~\E k \in DOMAIN child_map : child_map[k].id = c.id)

\* a result that puts right's insertions before left's
OrderedResult_right_first(base, left, right, bl_child_map, br_child_map, acc) ==
    IF acc.has_conflict
    THEN AmalgamConflict(acc.conflict[1], acc.conflict[2], acc.conflict[3])
    ELSE AmalgamMerged(reconstruct_node(base,
            acc.merged \o Inserted(right.children, acc.used_right, br_child_map)
                       \o Inserted(left.children, acc.used_left, bl_child_map)))

OrderedResult(base, left, right, bl_child_map, br_child_map, acc) ==
    IF acc.has_conflict
    THEN AmalgamConflict(acc.conflict[1], acc.conflict[2], acc.conflict[3])
    ELSE AmalgamMerged(reconstruct_node(base,
            acc.merged \o Inserted(left.children, acc.used_left, bl_child_map)
                       \o Inserted(right.children, acc.used_right, br_child_map)))

OrderedWith(base, left, right, bl_child_map, br_child_map, bl_map, br_map, lr_map) ==
    OrderedResult(base, left, right, bl_child_map, br_child_map,
        OrderedBase(base.children, bl_child_map, br_child_map, bl_map, br_map, lr_map,
            [merged |-> <<>>, has_conflict |-> FALSE, conflict |-> <<base, left, right>>,
             used_left |-> {}, used_right |-> {}]))

amalgamate_children(base, left, right, bl_map, br_map, lr_map) ==
    IF base.type = "List" /\ base.ordering = Unordered
    THEN amalgamate_unordered(base, left, right)
    ELSE OrderedWith(base, left, right,
             build_child_match_map(base.children, left.children, bl_map),
             build_child_match_map(base.children, right.children, br_map),
             bl_map, br_map, lr_map)

\* an amalgamation that keeps left whenever base equals one side
amalgamate_node_keeps_left(base, left, right, bl_map, br_map, lr_map) ==
    IF structurally_equal(base, left) /\ structurally_equal(base, right)
    THEN AmalgamMerged(base)
    ELSE IF structurally_equal(base, left) THEN AmalgamMerged(left)
    ELSE IF structurally_equal(base, right) THEN AmalgamMerged(right)
    ELSE IF structurally_equal(left, right) THEN AmalgamMerged(left)
    ELSE IF is_leaf(base) /\ is_leaf(left) /\ is_leaf(right)
    THEN AmalgamConflict(base, left, right)
    ELSE IF ~is_leaf(base) /\ ~is_leaf(left) /\ ~is_leaf(right)
    THEN amalgamate_children(base, left, right, bl_map, br_map, lr_map)
    ELSE AmalgamConflict(base, left, right)

amalgamate_node(base, left, right, bl_map, br_map, lr_map) ==
    IF structurally_equal(base, left) /\ structurally_equal(base, right)
    THEN AmalgamMerged(base)
    ELSE IF structurally_equal(base, right) THEN AmalgamMerged(left)
    ELSE IF structurally_equal(base, left) THEN AmalgamMerged(right)
    ELSE IF structurally_equal(left, right) THEN AmalgamMerged(left)
    ELSE IF is_leaf(base) /\ is_leaf(left) /\ is_leaf(right)
    THEN AmalgamConflict(base, left, right)
    ELSE IF ~is_leaf(base) /\ ~is_leaf(left) /\ ~is_leaf(right)
    THEN amalgamate_children(base, left, right, bl_map, br_map, lr_map)
    ELSE AmalgamConflict(base, left, right)

amalgamate(s) ==
    amalgamate_node(s.base, s.left, s.right,
        MatchMap(match_trees(s.base, s.left)),
        MatchMap(match_trees(s.base, s.right)),
        MatchMap(match_trees(s.left, s.right)))

amalgam_to_merge_result(result) ==
    IF result.tag = "Merged" THEN Resolved(to_source(result.node))
    ELSE ConflictResult(to_source(result.base), to_source(result.left),
                        to_source(result.right))

-----------------------------------------------------------------------------
(* Specification of the tree merge: amalgamate on three trees and          *)
(* match_children on two parents.                                          *)

MaxChildren == 2

LeafValues == {<<"a">>, <<"b">>, <<"c">>}

\* leaves numbered start+1, start+2, ... as the parser's counter numbers them
LeavesFrom(start, values) ==
    [i \in DOMAIN values |-> Leaf(start + i, "ident", values[i])]

ContainersOf(start, children) ==
    {List(start, "block", Ordered, children),
     List(start, "import_list", Unordered, children),
     Constructed(start, "pair", children)}

\* leaves and containers of at most one leaf
SmallTrees(start) ==
    {Leaf(start, "ident", v) : v \in LeafValues}
    \cup UNION {ContainersOf(start, LeavesFrom(start, vs)) : vs \in SeqsUpTo(LeafValues, 1)}

\* lists of one kind and ordering with up to n leaves
ListsOf(start, kind, ordering, n) ==
    {List(start, kind, ordering, LeavesFrom(start, vs)) : vs \in SeqsUpTo(LeafValues, n)}

ListKinds == {<<"block", Ordered>>, <<"import_list", Unordered>>}

\* children to match: leaves of two kinds and small blocks
MatchChildShapes(id) ==
    {Leaf(id, "ident", <<"a">>), Leaf(id, "ident", <<"b">>), Leaf(id, "number", <<"a">>),
     List(id, "block", Ordered, LeavesFrom(id + 10, << <<"a">>, <<"b">> >>)),
     List(id, "block", Ordered, LeavesFrom(id + 10, << <<"b">>, <<"a">>, <<"b">> >>))}

\* parents whose i-th child has id start+i (its own leaves start+i+11, ...)
MatchParents(start) ==
    UNION {{List(start, "block", Ordered, cs) :
               cs \in {f \in [1..n -> UNION {MatchChildShapes(start + i) : i \in 1..n}] :
                          \A i \in 1..n : f[i] \in MatchChildShapes(start + i)}}
           : n \in 0..MaxChildren}

NoTree == Leaf(0, "none", <<>>)

TreeInit ==
    /\ pc = "idle"
    /\ config \in {ResolverConfig(Medium, MaxVsaCandidates, SmallSearch, None)}
    /\ scenario = NoScenario
    /\ env = NoEnv
    /\ candidates = <<>>
    /\ strategies_tried = <<>>
    /\ resolution = None
    /\ fileOut = NoFileOut

\* amalgamate(&scenario)
AmalgamateOn(s) ==
    /\ scenario' = s
    /\ resolution' = amalgamate(s)

\* the three trees are small trees of any kind, or lists of one kind where
\* base holds fewer items than the sides may hold
Amalgamate ==
    /\ pc = "idle"
    /\ \/ \E b \in SmallTrees(1), l \in SmallTrees(11), r \in SmallTrees(21) :
             AmalgamateOn(Scenario(b, l, r))
       \/ \E k \in ListKinds :
             \E b \in ListsOf(1, k[1], k[2], MaxChildren - 1),
                l \in ListsOf(11, k[1], k[2], MaxChildren),
                r \in ListsOf(21, k[1], k[2], MaxChildren) :
                   AmalgamateOn(Scenario(b, l, r))
    /\ pc' = "amalgamated"
    /\ UNCHANGED <<config, env, candidates, strategies_tried, fileOut>>

MatchChildren ==
    /\ pc = "idle"
    /\ \E l \in MatchParents(100), r \in MatchParents(200), o \in {Ordered, Unordered} :
          /\ env' = [left_parent |-> l, right_parent |-> r, ordering |-> o]
          /\ candidates' = match_children(l, r, o)
    /\ pc' = "matched"
    /\ UNCHANGED <<config, scenario, strategies_tried, resolution, fileOut>>

TreeNext == Amalgamate \/ MatchChildren

SpecTree == TreeInit /\ [][TreeNext]_vars

\* C13: the decision of amalgamate at the root, by structural equality: base
\* when nothing changed, the changed side when one side changed, left when both
\* changed alike, and a conflict carrying the three nodes for three different
\* leaves or a mix of leaf and non-leaf nodes.
C13_NodeDecision ==
    pc = "amalgamated" =>
        LET b == scenario.base
            l == scenario.left
            r == scenario.right
            bl == structurally_equal(b, l)
            br == structurally_equal(b, r)
            lr == structurally_equal(l, r)
            leaves == {n \in {b, l, r} : is_leaf(n)}
        IN  /\ (bl /\ br => resolution = AmalgamMerged(b))
            /\ (br /\ ~bl => resolution = AmalgamMerged(l))
            /\ (bl /\ ~br => resolution = AmalgamMerged(r))
            /\ (lr /\ ~bl => resolution = AmalgamMerged(l))
            /\ (~bl /\ ~br /\ ~lr /\ (leaves = {b, l, r} \/ (leaves # {} /\ leaves # {b, l, r}))
                  => resolution = AmalgamConflict(b, l, r))

\* C13 witness: three leaves that differ pairwise end in a conflict
C13_Witness ==
    /\ pc = "amalgamated"
    /\ is_leaf(scenario.base) /\ is_leaf(scenario.left) /\ is_leaf(scenario.right)
    /\ resolution.tag = "Conflict"

\* the nodes of a sequence are pairwise structurally different
PairwiseDistinct(nodes) ==
    \A i, j \in DOMAIN nodes : i # j => ~structurally_equal(nodes[i], nodes[j])

\* both sides are the base's unordered list with additions appended, the
\* items of base and the additions all different from one another
OnlyAdditions ==
    LET b == scenario.base
        l == scenario.left
        r == scenario.right
        n == Len(b.children)
    IN  /\ b.type = "List" /\ b.ordering = Unordered
        /\ l.type = "List" /\ l.ordering = Unordered /\ l.kind = b.kind
        /\ r.type = "List" /\ r.ordering = Unordered /\ r.kind = b.kind
        /\ Len(l.children) >= n /\ Len(r.children) >= n
        /\ \A i \in 1..n : /\ structurally_equal(b.children[i], l.children[i])
                           /\ structurally_equal(b.children[i], r.children[i])
        /\ PairwiseDistinct(l.children \o SubSeq(r.children, n + 1, Len(r.children)))

\* C14: for an unordered list to which both sides only add different items,
\* amalgamate returns a merged list of the base items, then left's additions,
\* then right's additions, each once.
C14_UnorderedUnion ==
    (pc = "amalgamated" /\ OnlyAdditions) =>
        LET b == scenario.base
            n == Len(b.children)
            leftAdds == SubSeq(scenario.left.children, n + 1, Len(scenario.left.children))
            rightAdds == SubSeq(scenario.right.children, n + 1, Len(scenario.right.children))
        IN  /\ resolution.tag = "Merged"
            /\ structurally_equal(resolution.node,
                   List(0, b.kind, Unordered, b.children \o leftAdds \o rightAdds))

\* C14 witness: a base item and one addition on each side
C14_Witness ==
    /\ pc = "amalgamated"
    /\ OnlyAdditions
    /\ Len(scenario.base.children) >= 1
    /\ Len(scenario.left.children) > Len(scenario.base.children)
    /\ Len(scenario.right.children) > Len(scenario.base.children)
    /\ Len(resolution.node.children) = Len(scenario.base.children) + 2

\* position of the child with an id among the children of a parent
ChildPosition(parent, id) ==
    CHOOSE i \in DOMAIN parent.children : parent.children[i].id = id

\* C15: the pairs of match_children are one-to-one on both sides, for ordered
\* (Yang) and unordered (Hungarian) matching; ordered pairs are strictly
\* increasing in the position of the left and of the right child.
C15_MatchingInjective ==
    pc = "matched" =>
        /\ \A i, j \in DOMAIN candidates :
              i # j => /\ candidates[i].left # candidates[j].left
                       /\ candidates[i].right # candidates[j].right
        /\ \A i \in DOMAIN candidates :
              /\ HasChildId(env.left_parent.children, candidates[i].left)
              /\ HasChildId(env.right_parent.children, candidates[i].right)
        /\ (env.ordering = Ordered =>
              \A i, j \in DOMAIN candidates :
                 i < j => /\ ChildPosition(env.left_parent, candidates[i].left)
                               < ChildPosition(env.left_parent, candidates[j].left)
                          /\ ChildPosition(env.right_parent, candidates[i].right)
                               < ChildPosition(env.right_parent, candidates[j].right))

\* C15 witness: an unordered matching of two pairs that cross, which an
\* ordered matching of the same children cannot return
C15_Witness ==
    /\ pc = "matched"
    /\ env.ordering = Unordered
    /\ Len(candidates) = 2
    /\ ChildPosition(env.right_parent, candidates[1].right)
          > ChildPosition(env.right_parent, candidates[2].right)
    /\ Len(yang_match(env.left_parent.children, env.right_parent.children)) = 1

-----------------------------------------------------------------------------
(* parser.rs: tree-sitter trees converted to CstNode                       *)

\* a tree-sitter node: its kind, the source text of its byte range, its children
TsNode(kind, text, children) == [kind |-> kind, text |-> text, children |-> children]

IsPunctuation(c) == c = ";"

RECURSIVE TsTokens(_, _)
\* the tokens tree-sitter's lexer returns: words and punctuation marks; the
\* white space between them is skipped and is part of no node
TsTokens(source, word) ==
    LET flush == IF word = <<>> THEN <<>> ELSE <<TsNode("identifier", word, <<>>)>>
    IN  IF source = <<>> THEN flush
        ELSE IF IsWhitespace(Head(source)) THEN flush \o TsTokens(Tail(source), <<>>)
        ELSE IF IsPunctuation(Head(source))
             THEN flush \o <<TsNode(";", <<Head(source)>>, <<>>)>> \o TsTokens(Tail(source), <<>>)
        ELSE TsTokens(Tail(source), Append(word, Head(source)))

\* kind of the root node of each grammar
RootKind(lang) == IF lang = "Rust" THEN "source_file" ELSE "program"

\* the trees Parser::parse can return: a root over the tokens; a root without
\* tokens spans the whole text or nothing of it
TsParse(source, lang) ==
    IF TsTokens(source, <<>>) = <<>>
    THEN {TsNode(RootKind(lang), source, <<>>), TsNode(RootKind(lang), <<>>, <<>>)}
    ELSE {TsNode(RootKind(lang), Trim(source), TsTokens(source, <<>>))}

classify_ordering(kind) ==
    IF kind \in {"use_declaration_list", "import_list", "import_statement", "imports",
                 "class_body", "enum_body", "interface_body", "declaration_list"}
    THEN Unordered ELSE Ordered

\* is_list_node over the kinds of the grammars above
is_list_node(kind) == kind \in {"program", "source_file"}

RECURSIVE ts_node_to_cst(_, _)
RECURSIVE TsChildrenToCst(_, _)

\* the children in order, each numbered after the nodes of the one before
TsChildrenToCst(children, id) ==
    IF children = <<>> THEN <<>>
    ELSE <<ts_node_to_cst(Head(children), id)>>
         \o TsChildrenToCst(Tail(children), id + size(ts_node_to_cst(Head(children), id)))

\* id is the value fresh_id() returns next
ts_node_to_cst(node, id) ==
    IF Len(node.children) = 0 THEN Leaf(id, node.kind, node.text)
    ELSE IF is_list_node(node.kind) \/ Len(node.children) > 3
    THEN List(id, node.kind, classify_ordering(node.kind),
              TsChildrenToCst(node.children, id + 1))
    ELSE Constructed(id, node.kind, TsChildrenToCst(node.children, id + 1))

\* the trees parse_to_cst can return for a source, with NEXT_ID at 1
parse_to_cst(source, lang) == {ts_node_to_cst(t, 1) : t \in TsParse(source, lang)}

-----------------------------------------------------------------------------
(* Specification of the parser: a source is parsed and printed again.      *)

MaxSourceLen == 4

SourceChars == {"a", ";", SP, NL}

Sources == UNION {[1..n -> SourceChars] : n \in 0..MaxSourceLen}

Languages == {"Rust", "JavaScript"}

ParserInit ==
    /\ pc = "idle"
    /\ config \in {ResolverConfig(Medium, MaxVsaCandidates, SmallSearch, Some(l)) :
                      l \in Languages}
    /\ scenario = NoScenario
    /\ env = NoEnv
    /\ candidates = <<>>
    /\ strategies_tried = <<>>
    /\ resolution = None
    /\ fileOut = NoFileOut

ParseToCst ==
    /\ pc = "idle"
    /\ \E source \in Sources :
          /\ env' = [source |-> source]
          /\ \E tree \in parse_to_cst(source, config.language[1]) :
                resolution' = Ok(tree)
    /\ pc' = "parsed"
    /\ UNCHANGED <<config, scenario, candidates, strategies_tried, fileOut>>

ToSource ==
    /\ pc = "parsed"
    /\ candidates' = to_source(resolution.value)
    /\ pc' = "printed"
    /\ UNCHANGED <<config, scenario, env, strategies_tried, resolution, fileOut>>

ParserNext == ParseToCst \/ ToSource

SpecParser == ParserInit /\ [][ParserNext]_vars

\* C16: printing the tree of a parsed source gives the source back, white
\* space between tokens included.
C16_RoundTrip == pc = "printed" => candidates = env.source

-----------------------------------------------------------------------------
(* vsa.rs                                                                  *)

\* enum VersionSpace; every variant carries all fields, the unused ones empty
VersionSpace(vs, node, kind, ordering, children, left_items, right_items, base_items) ==
    [vs |-> vs, node |-> node, kind |-> kind, ordering |-> ordering,
     children |-> children, left_items |-> left_items, right_items |-> right_items,
     base_items |-> base_items]

Atom(node) == VersionSpace("Atom", node, "", Ordered, <<>>, <<>>, <<>>, <<>>)

JoinSpace(kind, children) ==
    VersionSpace("Join", NoTree, kind, Ordered, children, <<>>, <<>>, <<>>)

UnionSpace(options) ==
    VersionSpace("Union", NoTree, "", Ordered, options, <<>>, <<>>, <<>>)

ListJoin(kind, ordering, left_items, right_items, base_items) ==
    VersionSpace("ListJoin", NoTree, kind, ordering, <<>>, left_items, right_items, base_items)

\* every combo extended by every option, combo by combo, cut at max
ExtendCombos(combos, options, max) ==
    LET RECURSIVE Each(_)
        Each(cs) ==
            IF cs = <<>> THEN <<>>
            ELSE [k \in DOMAIN options |-> Append(Head(cs), options[k])] \o Each(Tail(cs))
    IN  Take(Each(combos), max)

RECURSIVE JoinCombos(_, _, _)
JoinCombos(child_options, combos, max) ==
    IF child_options = <<>> THEN combos
    ELSE JoinCombos(Tail(child_options), ExtendCombos(combos, Head(child_options), max), max)

\* the first tree of each item that has one
FirstOfEach(item_nodes) ==
    LET RECURSIVE Each(_)
        Each(ns) ==
            IF ns = <<>> THEN <<>>
            ELSE (IF Head(ns) = <<>> THEN <<>> ELSE <<Head(Head(ns))>>) \o Each(Tail(ns))
    IN  Each(item_nodes)

\* the two lists of a ListJoin, the second only while there is room
ListJoinInto(out, max, kind, ordering, base_nodes, left_nodes, right_nodes) ==
    LET first == Append(out, List(0, kind, ordering,
                        base_nodes \o FirstOfEach(left_nodes) \o FirstOfEach(right_nodes)))
    IN  IF Len(first) < max
        THEN Append(first, List(0, kind, ordering,
                        base_nodes \o FirstOfEach(right_nodes) \o FirstOfEach(left_nodes)))
        ELSE first

RECURSIVE enumerate_inner(_, _, _)
RECURSIVE EnumerateUnion(_, _, _)

\* the loop of the Union arm over its options
EnumerateUnion(options, out, max) ==
    IF options = <<>> \/ Len(out) >= max THEN out
    ELSE EnumerateUnion(Tail(options), enumerate_inner(Head(options), out, max), max)

enumerate_inner(space, out, max) ==
    IF Len(out) >= max THEN out
    ELSE IF space.vs = "Atom" THEN Append(out, space.node)
    ELSE IF space.vs = "Join" THEN
        LET child_options == [i \in DOMAIN space.children |->
                                 enumerate_inner(space.children[i], <<>>, max)]
            combos == JoinCombos(child_options, << <<>> >>, max)
        IN  out \o [i \in 1..Min(Len(combos), max - Len(out)) |->
                       Constructed(0, space.kind, combos[i])]
    ELSE IF space.vs = "Union" THEN EnumerateUnion(space.children, out, max)
    ELSE ListJoinInto(out, max, space.kind, space.ordering,
             Concat([i \in DOMAIN space.base_items |->
                        enumerate_inner(space.base_items[i], <<>>, 1)]),
             [i \in DOMAIN space.left_items |->
                 enumerate_inner(space.left_items[i], <<>>, max)],
             [i \in DOMAIN space.right_items |->
                 enumerate_inner(space.right_items[i], <<>>, max)])

\* a Union that lists its last option first
enumerate_last_first(space, max) ==
    IF space.vs = "Union"
    THEN EnumerateUnion(Reverse(space.children), <<>>, max)
    ELSE enumerate_inner(space, <<>>, max)

enumerate(space, max) == enumerate_inner(space, <<>>, max)

RECURSIVE MatchedBy(_, _, _)
\* the indices of a side's children that build_version_space marks as matched
MatchedBy(base_children, side_children, matched) ==
    IF base_children = <<>> THEN matched
    ELSE LET i == FindUnused(Head(base_children), side_children, matched)
         IN  MatchedBy(Tail(base_children), side_children,
                       IF i # 0 THEN matched \cup {i} ELSE matched)

AtomsOf(nodes) == [i \in DOMAIN nodes |-> Atom(nodes[i])]

build_version_space(s) ==
    IF structurally_equal(s.left, s.right) THEN Atom(s.left)
    ELSE IF is_leaf(s.base) /\ is_leaf(s.left) /\ is_leaf(s.right)
    THEN UnionSpace(<<Atom(s.left), Atom(s.right), Atom(s.base)>>)
    ELSE IF ~is_leaf(s.base) /\ ~is_leaf(s.left) /\ ~is_leaf(s.right)
    THEN ListJoin(s.base.kind,
             IF s.base.type = "List" THEN s.base.ordering ELSE Ordered,
             AtomsOf(UnusedChildren(s.left.children,
                        MatchedBy(s.base.children, s.left.children, {}), 1)),
             AtomsOf(UnusedChildren(s.right.children,
                        MatchedBy(s.base.children, s.right.children, {}), 1)),
             AtomsOf(s.base.children))
    ELSE UnionSpace(<<Atom(s.left), Atom(s.right), Atom(s.base)>>)

\* the score of rank_candidates as an exact fraction <<numerator, denominator>>:
\* (left_sim + right_sim - base_sim * 0.5) / size, both parts doubled
VsaScore(candidate, s) ==
    <<2 * (tree_similarity(candidate, s.left) + tree_similarity(candidate, s.right))
         - tree_similarity(candidate, s.base),
      2 * Max(size(candidate), 1)>>

FractionGreater(a, b) == a[1] * b[2] > b[1] * a[2]

RECURSIVE InsertByScore(_, _)
\* sort_by is stable: x goes behind every element that is not smaller
InsertByScore(sorted, x) ==
    IF sorted = <<>> THEN <<x>>
    ELSE IF FractionGreater(x.score, Head(sorted).score) THEN <<x>> \o sorted
    ELSE <<Head(sorted)>> \o InsertByScore(Tail(sorted), x)

RECURSIVE SortByScore(_, _)
SortByScore(scored, sorted) ==
    IF scored = <<>> THEN sorted
    ELSE SortByScore(Tail(scored), InsertByScore(sorted, Head(scored)))

\* a ranking that removes no duplicates
RetainFirstSources_keep_all(nodes, seen) == nodes

RECURSIVE RetainFirstSources(_, _)
\* scored.retain: the first candidate of each source text
RetainFirstSources(nodes, seen) ==
    IF nodes = <<>> THEN <<>>
    ELSE IF to_source(Head(nodes)) \in seen THEN RetainFirstSources(Tail(nodes), seen)
    ELSE <<Head(nodes)>> \o RetainFirstSources(Tail(nodes), seen \cup {to_source(Head(nodes))})

rank_candidates(nodes, s) ==
    LET scored == [i \in DOMAIN nodes |-> [node |-> nodes[i], score |-> VsaScore(nodes[i], s)]]
        sorted == SortByScore(scored, <<>>)
        kept == RetainFirstSources([i \in DOMAIN sorted |-> sorted[i].node], {})
    IN  [i \in DOMAIN kept |->
            Candidate(to_source(kept[i]), IF i = 1 THEN Medium ELSE Low,
                      "VersionSpaceAlgebra")]

resolve_via_vsa(s, max_candidates) ==
    rank_candidates(enumerate(build_version_space(s), max_candidates), s)

-----------------------------------------------------------------------------
(* Specification of the version space algebra: a version space is          *)
(* enumerated, and a conflict of three trees is resolved by                *)
(* resolve_via_vsa.                                                        *)

AtomSpaces == {Atom(Leaf(1, "ident", <<"a">>)), Atom(Leaf(2, "ident", <<"b">>))}

\* the version spaces one level above a set of version spaces
SpacesOver(below, n) ==
    {JoinSpace("pair", cs) : cs \in SeqsUpTo(below, n)}
    \cup {UnionSpace(cs) : cs \in SeqsUpTo(below, n)}
    \cup {ListJoin("block", Ordered, l, r, b) :
             l \in SeqsUpTo(below, 1), r \in SeqsUpTo(below, 1), b \in SeqsUpTo(AtomSpaces, 1)}

\* any nesting of Atom, Join, Union and ListJoin, two levels deep
NestedSpaces(level) ==
    IF level = 0 THEN AtomSpaces
    ELSE IF level = 1 THEN AtomSpaces \cup SpacesOver(AtomSpaces, MaxChildren)
    ELSE SpacesOver(AtomSpaces \cup SpacesOver(AtomSpaces, MaxChildren), 2)

EnumerateLimits == 0..(MaxVsaCandidates + 1)

\* lists of one kind over two leaf values
VsaListsOf(start, kind, ordering, n) ==
    {List(start, kind, ordering, LeavesFrom(start, vs)) :
        vs \in SeqsUpTo({<<"a">>, <<"b">>}, n)}

VsaInit ==
    /\ pc = "idle"
    /\ config \in {ResolverConfig(Medium, max, SmallSearch, None) : max \in EnumerateLimits}
    /\ scenario = NoScenario
    /\ env = NoEnv
    /\ candidates = <<>>
    /\ strategies_tried = <<>>
    /\ resolution = None
    /\ fileOut = NoFileOut

\* vsa.enumerate(max) on a version space
Enumerate ==
    /\ pc = "idle"
    /\ \E level \in 1..2 : \E space \in NestedSpaces(level) :
          /\ env' = [space |-> space]
          /\ candidates' = enumerate(space, config.max_vsa_candidates)
    /\ pc' = "enumerated"
    /\ UNCHANGED <<config, scenario, strategies_tried, resolution, fileOut>>

\* resolve_via_vsa(&scenario, max_candidates); env keeps its intermediate values
ResolveViaVsaOn(s) ==
    /\ scenario' = s
    /\ env' = [space |-> build_version_space(s),
               enumerated |-> enumerate(build_version_space(s), config.max_vsa_candidates)]
    /\ candidates' = resolve_via_vsa(s, config.max_vsa_candidates)

ResolveViaVsa ==
    /\ pc = "idle"
    /\ \/ \E b \in SmallTrees(1), l \in SmallTrees(11), r \in SmallTrees(21) :
             ResolveViaVsaOn(Scenario(b, l, r))
       \/ \E k \in ListKinds :
             \E b \in VsaListsOf(1, k[1], k[2], MaxChildren - 1),
                l \in VsaListsOf(11, k[1], k[2], MaxChildren),
                r \in VsaListsOf(21, k[1], k[2], MaxChildren) :
                   ResolveViaVsaOn(Scenario(b, l, r))
    /\ pc' = "ranked"
    /\ UNCHANGED <<config, strategies_tried, resolution, fileOut>>

VsaNext == Enumerate \/ ResolveViaVsa

SpecVsa == VsaInit /\ [][VsaNext]_vars

\* candidate j of the ranked input comes before candidate i: a greater score,
\* or the same score and an earlier place in the input
RankedBefore(j, i) ==
    \/ FractionGreater(VsaScore(env.enumerated[j], scenario), VsaScore(env.enumerated[i], scenario))
    \/ /\ ~FractionGreater(VsaScore(env.enumerated[i], scenario), VsaScore(env.enumerated[j], scenario))
       /\ j < i

\* the input candidates that no candidate of the same source text comes before
RankedKept ==
    {i \in DOMAIN env.enumerated :
        \A j \in DOMAIN env.enumerated :
            RankedBefore(j, i) => to_source(env.enumerated[j]) # to_source(env.enumerated[i])}

\* the ranked list: distinct contents, by non-increasing score, equal scores
\* in input order, the first Medium and the others Low, all VersionSpaceAlgebra
RankingHolds ==
    /\ Len(candidates) = Cardinality(RankedKept)
    /\ \A i \in RankedKept :
          candidates[Cardinality({j \in RankedKept : RankedBefore(j, i)}) + 1].content
             = to_source(env.enumerated[i])
    /\ \A i, j \in DOMAIN candidates : i # j => candidates[i].content # candidates[j].content
    /\ \A i \in DOMAIN candidates :
          /\ candidates[i].confidence = (IF i = 1 THEN Medium ELSE Low)
          /\ candidates[i].strategy = "VersionSpaceAlgebra"

SingleLeftCandidate ==
    /\ Len(candidates) = 1
    /\ candidates[1].content = to_source(scenario.left)

\* C17 as stated: the ranking holds and, when left and right are structurally
\* equal, resolve_via_vsa returns the single candidate left's source.
C17_VsaRanking ==
    pc = "ranked" =>
        /\ RankingHolds
        /\ (structurally_equal(scenario.left, scenario.right) => SingleLeftCandidate)

\* C17, amended: the ranking holds and, when left and right are structurally
\* equal and max_candidates is at least 1, resolve_via_vsa returns the single
\* candidate left's source.
C17_VsaRanking_Amended ==
    pc = "ranked" =>
        /\ RankingHolds
        /\ (structurally_equal(scenario.left, scenario.right) /\ config.max_vsa_candidates >= 1
               => SingleLeftCandidate)

\* C17 witness: three candidates are ranked, the order changes and one of them
\* is dropped for its source text
C17_Witness ==
    /\ pc = "ranked"
    /\ Len(env.enumerated) = 3
    /\ Len(candidates) = 2
    /\ candidates[1].content # to_source(env.enumerated[1])

\* C17 witness of the agreeing sides: one candidate, left's source
C17_WitnessAgree ==
    /\ pc = "ranked"
    /\ structurally_equal(scenario.left, scenario.right)
    /\ ~structurally_equal(scenario.left, scenario.base)
    /\ SingleLeftCandidate

\* C18: enumerate(max) returns at most max trees for every version space and
\* max; a Union yields its alternatives in the listed order; the version space
\* of three pairwise different leaves enumerates left, right, base.
C18_EnumerationBound ==
    /\ (pc = "enumerated" =>
          /\ Len(candidates) <= config.max_vsa_candidates
          /\ (env.space.vs = "Union" =>
                candidates = Take(Concat([i \in DOMAIN env.space.children |->
                                            enumerate(env.space.children[i],
                                                      config.max_vsa_candidates)]),
                                  config.max_vsa_candidates)))
    /\ (pc = "ranked" =>
          /\ Len(env.enumerated) <= config.max_vsa_candidates
          /\ (/\ is_leaf(scenario.base) /\ is_leaf(scenario.left) /\ is_leaf(scenario.right)
              /\ PairwiseDistinct(<<scenario.base, scenario.left, scenario.right>>)
              => env.enumerated = Take(<<scenario.left, scenario.right, scenario.base>>,
                                       config.max_vsa_candidates)))

\* C18 witness: a Union of nested alternatives is cut at max
C18_Witness ==
    /\ pc = "enumerated"
    /\ env.space.vs = "Union"
    /\ Len(env.space.children) = 2
    /\ env.space.children[1].vs = "ListJoin"
    /\ env.space.children[2].vs = "Union"
    /\ Len(candidates) = 3
    /\ Len(enumerate(env.space.children[1], 3)) + Len(enumerate(env.space.children[2], 3)) > 3

-----------------------------------------------------------------------------
(* Specification of the search: search_resolve generation by generation.   *)

SearchBaseTexts == {<<>>, <<"x">>}

SearchConfigs ==
    {SearchConfig(mc, mg, ps) : mc \in {1, MaxCandidates}, mg \in 0..MaxGenerations,
                                ps \in {1, PopulationSize}}

SearchInit ==
    /\ pc = "idle"
    /\ config \in {ResolverConfig(Medium, MaxVsaCandidates, sc, None) : sc \in SearchConfigs}
    /\ scenario = NoScenario
    /\ env = NoEnv
    /\ candidates = <<>>
    /\ strategies_tried = <<>>
    /\ resolution = None
    /\ fileOut = NoFileOut

\* the initial population of the seven strategies
Seed ==
    /\ pc = "idle"
    /\ \E b \in SearchBaseTexts, l \in RegionTexts, r \in RegionTexts :
          /\ scenario' = Scenario(b, l, r)
          /\ env' = [gen |-> 0, population |-> InitialPopulation(Scenario(b, l, r))]
    /\ pc' = "evolving"
    /\ UNCHANGED <<config, candidates, strategies_tried, resolution, fileOut>>

\* one round of the loop over the generations
Generation ==
    /\ pc = "evolving"
    /\ env.gen < config.search_config.max_generations
    /\ env' = [gen |-> env.gen + 1,
               population |->
                   select_best(env.population \o NewPop(env.population, config.search_config),
                               scenario, config.search_config.population_size)]
    /\ UNCHANGED <<pc, config, scenario, candidates, strategies_tried, resolution, fileOut>>

\* the final scoring and ranking, after the last generation
FinalRanking ==
    /\ pc = "evolving"
    /\ env.gen >= config.search_config.max_generations
    /\ candidates' =
          LET top == Take(DedupStrings(SortByFitness(env.population, scenario), {}),
                          config.search_config.max_candidates)
          IN  [i \in DOMAIN top |-> Candidate(top[i], Low, "SearchBased")]
    /\ pc' = "returned"
    /\ UNCHANGED <<config, scenario, env, strategies_tried, resolution, fileOut>>

SearchNext == Seed \/ Generation \/ FinalRanking

SpecSearch == SearchInit /\ [][SearchNext]_vars

\* the stepwise search returns what search_resolve returns
SearchStepsAgree ==
    pc = "returned" => candidates = search_resolve(scenario, config.search_config)

\* C19: search_resolve runs at most max_generations generations; after each
\* the population holds at most population_size distinct strings; it returns
\* at most max_candidates candidates of distinct content, in non-increasing
\* fitness order, all SearchBased with confidence Low.
C19_SearchContract ==
    /\ (pc \in {"evolving", "returned"} => env.gen <= config.search_config.max_generations)
    /\ (pc \in {"evolving", "returned"} /\ env.gen >= 1 =>
          /\ Len(env.population) <= config.search_config.population_size
          /\ \A i, j \in DOMAIN env.population :
                i # j => env.population[i] # env.population[j])
    /\ (pc = "returned" =>
          /\ env.gen = config.search_config.max_generations
          /\ Len(candidates) <= config.search_config.max_candidates
          /\ \A i, j \in DOMAIN candidates :
                i # j => candidates[i].content # candidates[j].content
          /\ \A i \in 1..(Len(candidates) - 1) :
                ~FractionGreater(fitness(candidates[i + 1].content, scenario),
                                 fitness(candidates[i].content, scenario))
          /\ \A i \in DOMAIN candidates :
                candidates[i].strategy = "SearchBased" /\ candidates[i].confidence = Low)

\* C19 witness: after a generation, a population with duplicates among the
\* seeds is cut to population_size and the candidates to max_candidates
C19_Witness ==
    /\ pc = "returned"
    /\ env.gen >= 1
    /\ Len(env.population) = config.search_config.population_size
    /\ Len(candidates) = config.search_config.max_candidates
    /\ Len(candidates) >= 2
    /\ FractionGreater(fitness(candidates[1].content, scenario),
                       fitness(candidates[Len(candidates)].content, scenario))
    /\ \E i, j \in DOMAIN InitialPopulation(scenario) :
          i # j /\ InitialPopulation(scenario)[i] = InitialPopulation(scenario)[j]

\* C20: with the default acceptance threshold and any language setting,
\* resolve_conflict returns at least one candidate for every base, left and
\* right, also when no pattern rule matches.
C20_AlwaysCandidates ==
    (Returned /\ config.auto_accept_threshold = Medium) => candidates # <<>>

\* C20 witness: no pattern rule matches, a language is set, and the search
\* alone provides the candidates
C20_Witness ==
    /\ Returned
    /\ config.auto_accept_threshold = Medium
    /\ config.language # None
    /\ try_resolve_all(scenario) = <<>>
    /\ candidates # <<>>
    /\ \A i \in DOMAIN candidates : candidates[i].strategy = "SearchBased"

\* the candidates of the pool that Strategy 3 added
HasVsaCandidate ==
    \E i \in DOMAIN candidates : candidates[i].strategy = "VersionSpaceAlgebra"

StructuredTried == "StructuredMerge" \in Range(strategies_tried)

\* C21: candidates tagged VersionSpaceAlgebra enter the pool only when the
\* structured merge was attempted on the same texts and returned Conflict;
\* when it returned Merged, its High candidate is the resolution whatever the
\* threshold and the version space stage is not run.
C21_VsaAfterStructuredConflict ==
    /\ (pc \in {"search", "returned"} /\ HasVsaCandidate)
          => /\ StructuredTried
             /\ try_structured_merge(env.ext) = Ok(None)
    /\ (StructuredTried /\ try_structured_merge(env.ext).ok
            /\ try_structured_merge(env.ext).value # None)
          => /\ Returned
             /\ resolution = Some(Candidate(env.ext.amalgam.source, High, "StructuredMerge"))
             /\ "VersionSpaceAlgebra" \notin Range(strategies_tried)

\* C21 witness: Strategy 3 has just added its candidates after a structured
\* merge of the same texts that ended in Conflict
C21_Witness ==
    /\ pc = "search"
    /\ HasVsaCandidate
    /\ env.ext.amalgam.kind = "Conflict"
    /\ Last(strategies_tried) = "VersionSpaceAlgebra"

(***************************************************************************)
(* SpecOrdered: amalgamate on ordered blocks whose children are leaves or  *)
(* nested blocks.                                                          *)
(***************************************************************************)
MaxBaseChildren == 3

\* a child of the block: a leaf, or a nested block of leaves
ShapeLeaf(v) == [leaf |-> TRUE, values |-> <<v>>]

ShapeBlock(vs) == [leaf |-> FALSE, values |-> vs]

ShapeNode(id, leaves_from, shape) ==
    IF shape.leaf THEN Leaf(id, "ident", shape.values[1])
    ELSE List(id, "block", Ordered, LeavesFrom(leaves_from, shape.values))

\* blocks of up to n children; the i-th child has id start+i and its leaves
\* start+10i+1, ...
OrderedParents(start, shapes, n) ==
    {List(start, "block", Ordered,
          [i \in DOMAIN sh |-> ShapeNode(start + i, start + 10 * i, sh[i])]) :
        sh \in SeqsUpTo(shapes, n)}

\* the shapes of base's, left's and right's children: leaves that are moved,
\* repeated, added and removed; nested blocks that are edited and removed
OrderedFamilies ==
    {<< {ShapeLeaf(<<"a">>), ShapeLeaf(<<"b">>)},
        {ShapeLeaf(<<"a">>), ShapeLeaf(<<"b">>)},
        {ShapeLeaf(<<"a">>), ShapeLeaf(<<"b">>)} >>,
     << {ShapeBlock(<< <<"a">>, <<"b">> >>), ShapeBlock(<< <<"b">>, <<"c">> >>)},
        {ShapeBlock(<< <<"a">> >>), ShapeBlock(<< <<"c">> >>)},
        {ShapeBlock(<< <<"a">>, <<"b">> >>), ShapeLeaf(<<"a">>)} >>}

\* amalgamate_node goes on to amalgamate_children for these three nodes
ReachesChildren(s) ==
    /\ ~structurally_equal(s.base, s.left)
    /\ ~structurally_equal(s.base, s.right)
    /\ ~structurally_equal(s.left, s.right)
    /\ ~is_leaf(s.base) /\ ~is_leaf(s.left) /\ ~is_leaf(s.right)

\* the maps of amalgamate and the child maps of amalgamate_children
OrderedMaps(s, bl_map, br_map, lr_map) ==
    [children_level |-> ReachesChildren(s),
     bl_map |-> bl_map, br_map |-> br_map, lr_map |-> lr_map,
     bl_child_map |-> IF ReachesChildren(s)
                      THEN build_child_match_map(s.base.children, s.left.children, bl_map)
                      ELSE <<>>,
     br_child_map |-> IF ReachesChildren(s)
                      THEN build_child_match_map(s.base.children, s.right.children, br_map)
                      ELSE <<>>]

\* base is given at the start; left and right come with the call
OrderedInit ==
    /\ pc = "idle"
    /\ config \in {ResolverConfig(Medium, MaxVsaCandidates, SmallSearch, None)}
    /\ \E f \in OrderedFamilies :
          /\ env = [family |-> f]
          /\ \E b \in OrderedParents(100, f[1], MaxBaseChildren) :
                scenario = Scenario(b, NoTree, NoTree)
    /\ candidates = <<>>
    /\ strategies_tried = <<>>
    /\ resolution = None
    /\ fileOut = NoFileOut

\* amalgamate(&scenario): the three match maps, then amalgamate_node
AmalgamateOrderedOn(s, bl_map, br_map, lr_map) ==
    /\ scenario' = s
    /\ env' = OrderedMaps(s, bl_map, br_map, lr_map)
    /\ resolution' = amalgamate_node(s.base, s.left, s.right, bl_map, br_map, lr_map)

AmalgamateOrdered ==
    /\ pc = "idle"
    /\ \E l \in OrderedParents(200, env.family[2], MaxBaseChildren),
          r \in OrderedParents(300, env.family[3], MaxBaseChildren - 1) :
             AmalgamateOrderedOn(Scenario(scenario.base, l, r),
                                 MatchMap(match_trees(scenario.base, l)),
                                 MatchMap(match_trees(scenario.base, r)),
                                 MatchMap(match_trees(l, r)))
    /\ pc' = "ordered"
    /\ UNCHANGED <<config, candidates, strategies_tried, fileOut>>

OrderedNext == AmalgamateOrdered

SpecOrdered == OrderedInit /\ [][OrderedNext]_vars

\* the call has reached amalgamate_children on an ordered node
ChildrenLevel == pc = "ordered" /\ env.children_level

\* the locals of amalgamate_children before its loop
OrderedStart(s) ==
    [merged |-> <<>>, has_conflict |-> FALSE, conflict |-> <<s.base, s.left, s.right>>,
     used_left |-> {}, used_right |-> {}]

\* one iteration of the loop, for base child bc alone
ChildOutcome(bc) ==
    OrderedBase(<<bc>>, env.bl_child_map, env.br_child_map,
                env.bl_map, env.br_map, env.lr_map, OrderedStart(scenario))

\* the base children whose iteration reports a conflict, in base order
ConflictingChildren ==
    SelectSeq(scenario.base.children, LAMBDA bc : ChildOutcome(bc).has_conflict)

ConflictOf(bc) ==
    AmalgamConflict(ChildOutcome(bc).conflict[1], ChildOutcome(bc).conflict[2],
                    ChildOutcome(bc).conflict[3])

\* C22: when base children of an ordered node conflict, amalgamate returns
\* Conflict with the subtree triple of the first conflicting base child in
\* base order; when none conflicts it returns Merged with the node's id, kind
\* and ordering.
C22_FirstConflict ==
    ChildrenLevel =>
        IF ConflictingChildren # <<>>
        THEN resolution = ConflictOf(Head(ConflictingChildren))
        ELSE /\ resolution.tag = "Merged"
             /\ resolution.node.id = scenario.base.id
             /\ resolution.node.kind = scenario.base.kind
             /\ resolution.node.type = scenario.base.type
             /\ resolution.node.ordering = scenario.base.ordering

\* what the loop does: the triple of the last conflicting base child is kept
C22_LastConflict ==
    ChildrenLevel =>
        IF ConflictingChildren # <<>>
        THEN resolution = ConflictOf(Last(ConflictingChildren))
        ELSE /\ resolution.tag = "Merged"
             /\ resolution.node.id = scenario.base.id
             /\ resolution.node.kind = scenario.base.kind
             /\ resolution.node.type = scenario.base.type
             /\ resolution.node.ordering = scenario.base.ordering

\* two base children conflict
C22_TwoConflicts == ChildrenLevel /\ Len(ConflictingChildren) >= 2

\* the base children that have a match on both sides, in base order
MatchedOnBoth ==
    SelectSeq(scenario.base.children,
        LAMBDA bc : bc.id \in DOMAIN env.bl_child_map /\ bc.id \in DOMAIN env.br_child_map)

\* the merge of a base child with its two matches
ChildResult(bc) ==
    amalgamate_node(bc, env.bl_child_map[bc.id], env.br_child_map[bc.id],
                    env.bl_map, env.br_map, env.lr_map)

\* the children of a side that no base child is matched with, in their order
UnmatchedChildren(children, child_map) ==
    SelectSeq(children, LAMBDA c : \A k \in DOMAIN child_map : child_map[k].id # c.id)

\* the base children that the merge drops
DroppedChildren ==
    SelectSeq(scenario.base.children,
        LAMBDA bc : bc.id \notin DOMAIN env.bl_child_map \/ bc.id \notin DOMAIN env.br_child_map)

\* C23: when the children of an ordered node merge, the merged list is the
\* results for the base children matched on both sides in base order, then
\* left's children matched to no base child in left order, then right's in
\* right order; a base child matched on one side only equals that match and
\* is dropped, like one matched on neither side.
C23_OrderedChildOrder ==
    (ChildrenLevel /\ resolution.tag = "Merged") =>
        /\ \A i \in DOMAIN MatchedOnBoth : ChildResult(MatchedOnBoth[i]).tag = "Merged"
        /\ resolution.node.children =
              [i \in DOMAIN MatchedOnBoth |-> ChildResult(MatchedOnBoth[i]).node]
              \o UnmatchedChildren(scenario.left.children, env.bl_child_map)
              \o UnmatchedChildren(scenario.right.children, env.br_child_map)
        /\ \A i \in DOMAIN DroppedChildren :
              LET bc == DroppedChildren[i]
              IN  /\ bc.id \in DOMAIN env.bl_child_map
                        => structurally_equal(bc, env.bl_child_map[bc.id])
                  /\ bc.id \in DOMAIN env.br_child_map
                        => structurally_equal(bc, env.br_child_map[bc.id])

\* C23 witness: a merge with a child matched on both sides, a dropped child,
\* two insertions of left and one of right
C23_Witness ==
    /\ ChildrenLevel
    /\ resolution.tag = "Merged"
    /\ MatchedOnBoth # <<>>
    /\ DroppedChildren # <<>>
    /\ Len(UnmatchedChildren(scenario.left.children, env.bl_child_map)) >= 2
    /\ UnmatchedChildren(scenario.right.children, env.br_child_map) # <<>>
    /\ ~structurally_equal(
            UnmatchedChildren(scenario.left.children, env.bl_child_map)[1],
            UnmatchedChildren(scenario.right.children, env.br_child_map)[1])

InjectiveMap(child_map) ==
    \A j, k \in DOMAIN child_map : j # k => child_map[j].id # child_map[k].id

\* C26: the maps from base children to left children and to right children
\* that build_child_match_map returns never give the same child to two base
\* children.
C26_ChildMapsInjective ==
    ChildrenLevel => InjectiveMap(env.bl_child_map) /\ InjectiveMap(env.br_child_map)

\* the two children that a pair of match_children joins
PairLeft(pair) == ChildById(env.left_parent.children, pair.left)

PairRight(pair) == ChildById(env.right_parent.children, pair.right)

\* C24: every pair that match_children returns for Ordered joins two
\* compatible children of similarity above 0, and the pair's score is that
\* similarity; children of similarity 0 are never paired.
C24_OrderedPairsSimilar ==
    (pc = "matched" /\ env.ordering = Ordered) =>
        \A i \in DOMAIN candidates :
            /\ can_match(PairLeft(candidates[i]), PairRight(candidates[i]))
            /\ tree_similarity(PairLeft(candidates[i]), PairRight(candidates[i])) > 0
            /\ candidates[i].score =
                  tree_similarity(PairLeft(candidates[i]), PairRight(candidates[i]))

\* what holds of the ordered pairs: compatible children, scored by their
\* similarity, which may be 0
C24_OrderedPairsCompatible ==
    (pc = "matched" /\ env.ordering = Ordered) =>
        \A i \in DOMAIN candidates :
            /\ can_match(PairLeft(candidates[i]), PairRight(candidates[i]))
            /\ candidates[i].score =
                  tree_similarity(PairLeft(candidates[i]), PairRight(candidates[i]))

\* the one-to-one assignments of left children to right children: f[i] is
\* the position of the right child given to left child i, 0 for none
Assignments(n, m) ==
    {f \in [1..n -> 0..m] : \A i, j \in 1..n : (i # j /\ f[i] # 0) => f[i] # f[j]}

RECURSIVE AssignmentWeight(_, _, _, _)
\* the summed tree_similarity of the compatible pairs of f, rows i..n
AssignmentWeight(left, right, f, i) ==
    IF i > Len(left) THEN 0
    ELSE (IF f[i] # 0 /\ can_match(left[i], right[f[i]])
          THEN tree_similarity(left[i], right[f[i]]) ELSE 0)
         + AssignmentWeight(left, right, f, i + 1)

BestAssignmentWeight(left, right) ==
    MaxOf({AssignmentWeight(left, right, f, 1) : f \in Assignments(Len(left), Len(right))})

RECURSIVE ScoreSum(_)
ScoreSum(pairs) == IF pairs = <<>> THEN 0 ELSE Head(pairs).score + ScoreSum(Tail(pairs))

\* C25: for child sequences of any two lengths, the scores of the pairs that
\* the unordered (Hungarian) matching returns sum to the maximum, over all
\* one-to-one assignments, of the summed tree_similarity of the compatible
\* pairs, and every returned pair is compatible with a positive score;
\* hungarian_max ends with an assignment on every weight matrix built.
C25_UnorderedOptimal ==
    (pc = "matched" /\ env.ordering = Unordered) =>
        /\ ScoreSum(candidates)
              = BestAssignmentWeight(env.left_parent.children, env.right_parent.children)
        /\ \A i \in DOMAIN candidates :
              /\ candidates[i].score > 0
              /\ can_match(PairLeft(candidates[i]), PairRight(candidates[i]))
              /\ candidates[i].score =
                    tree_similarity(PairLeft(candidates[i]), PairRight(candidates[i]))

\* C25 witness: one left child and two right children, both similar to it;
\* the matching takes the second, the more similar one
C25_Witness ==
    /\ pc = "matched"
    /\ env.ordering = Unordered
    /\ Len(env.left_parent.children) = 1
    /\ Len(env.right_parent.children) = 2
    /\ tree_similarity(env.left_parent.children[1], env.right_parent.children[1]) > 0
    /\ tree_similarity(env.left_parent.children[1], env.right_parent.children[2])
          > tree_similarity(env.left_parent.children[1], env.right_parent.children[1])
    /\ Len(candidates) = 1
    /\ candidates[1].right = env.right_parent.children[2].id

(***************************************************************************)
(* SpecWalk: the loop of build_hunks, one iteration per step.              *)
(***************************************************************************)
\* the op under a cursor, "None" past the end: left_ops.get(li)
OpAt(ops, i) == IF i <= Len(ops) THEN ops[i].op ELSE "None"

\* the cursors and the hunks after one iteration, with the arm taken
Walked(li, ri, hunks, arm) == [li |-> li, ri |-> ri, hunks |-> hunks, arm |-> arm]

\* an iteration whose "left deletes, right keeps" arm leaves right where it is
WalkIteration_left_alone(left_ops, right_ops, li, ri, hunks) ==
    LET l == OpAt(left_ops, li)
        r == OpAt(right_ops, ri)
    IN  IF l = "Keep" /\ r = "Keep"
        THEN Walked(li + 1, ri + 1, Append(hunks, Hunk("Stable", left_ops[li].lines)), "KeepKeep")
        ELSE IF l = "Insert"
        THEN Walked(li + 1, ri, Append(hunks, Hunk("LeftChanged", left_ops[li].lines)), "LeftInsert")
        ELSE IF r = "Insert"
        THEN Walked(li, ri + 1, Append(hunks, Hunk("RightChanged", right_ops[ri].lines)), "RightInsert")
        ELSE IF l = "Delete" /\ r = "Delete" THEN Walked(li + 1, ri + 1, hunks, "DeleteDelete")
        ELSE IF l = "Delete" /\ r = "Keep" THEN Walked(li + 1, ri, hunks, "DeleteKeep")
        ELSE IF l = "Keep" /\ r = "Delete" THEN Walked(li + 1, ri + 1, hunks, "KeepDelete")
        ELSE IF l # "None" /\ r = "None"
        THEN Walked(li + 1, ri,
                    IF l \in {"Keep", "Insert"}
                    THEN Append(hunks, Hunk("Stable", left_ops[li].lines)) ELSE hunks,
                    "RightExhausted")
        ELSE IF l = "None" /\ r # "None"
        THEN Walked(li, ri + 1,
                    IF r \in {"Keep", "Insert"}
                    THEN Append(hunks, Hunk("Stable", right_ops[ri].lines)) ELSE hunks,
                    "LeftExhausted")
        ELSE Walked(li, ri, hunks, "Break")

\* one iteration of the loop of build_hunks: the match on (l_op, r_op), its
\* arms in their order
WalkIteration(left_ops, right_ops, li, ri, hunks) ==
    LET l == OpAt(left_ops, li)
        r == OpAt(right_ops, ri)
    IN  IF l = "Keep" /\ r = "Keep"
        THEN Walked(li + 1, ri + 1, Append(hunks, Hunk("Stable", left_ops[li].lines)), "KeepKeep")
        ELSE IF l = "Insert"
        THEN Walked(li + 1, ri, Append(hunks, Hunk("LeftChanged", left_ops[li].lines)), "LeftInsert")
        ELSE IF r = "Insert"
        THEN Walked(li, ri + 1, Append(hunks, Hunk("RightChanged", right_ops[ri].lines)), "RightInsert")
        ELSE IF l = "Delete" /\ r = "Delete" THEN Walked(li + 1, ri + 1, hunks, "DeleteDelete")
        ELSE IF l = "Delete" /\ r = "Keep" THEN Walked(li + 1, ri + 1, hunks, "DeleteKeep")
        ELSE IF l = "Keep" /\ r = "Delete" THEN Walked(li + 1, ri + 1, hunks, "KeepDelete")
        ELSE IF l # "None" /\ r = "None"
        THEN Walked(li + 1, ri,
                    IF l \in {"Keep", "Insert"}
                    THEN Append(hunks, Hunk("Stable", left_ops[li].lines)) ELSE hunks,
                    "RightExhausted")
        ELSE IF l = "None" /\ r # "None"
        THEN Walked(li, ri + 1,
                    IF r \in {"Keep", "Insert"}
                    THEN Append(hunks, Hunk("Stable", right_ops[ri].lines)) ELSE hunks,
                    "LeftExhausted")
        ELSE Walked(li, ri, hunks, "Break")

WalkInit ==
    /\ pc = "idle"
    /\ config \in TextOnlyConfigs
    /\ scenario = NoScenario
    /\ env = NoEnv
    /\ candidates = <<>>
    /\ strategies_tried = <<>>
    /\ resolution = None
    /\ fileOut = NoFileOut

\* diff3_hunks up to the loop: the two diffs and their line ops
StartWalk ==
    /\ pc = "idle"
    /\ \E b \in RegionTexts, l \in RegionTexts, r \in RegionTexts :
       \E cl \in TextDiffChanges(b, l), cr \in TextDiffChanges(b, r) :
          /\ scenario' = Scenario(b, l, r)
          /\ fileOut' = [NoFileOut EXCEPT !.left_ops = extract_line_ops(cl),
                                          !.right_ops = extract_line_ops(cr)]
    /\ env' = [li |-> 1, ri |-> 1, prev_li |-> 1, prev_ri |-> 1, arm |-> "None"]
    /\ pc' = "walking"
    /\ UNCHANGED <<config, candidates, strategies_tried, resolution>>

WalkSetsCursors(w) ==
    /\ env' = [li |-> w.li, ri |-> w.ri, prev_li |-> env.li, prev_ri |-> env.ri, arm |-> w.arm]
    /\ fileOut' = [fileOut EXCEPT !.hunks = w.hunks]

\* one iteration of the while loop
WalkStep ==
    /\ pc = "walking"
    /\ env.li <= Len(fileOut.left_ops) \/ env.ri <= Len(fileOut.right_ops)
    /\ WalkSetsCursors(WalkIteration(fileOut.left_ops, fileOut.right_ops,
                                     env.li, env.ri, fileOut.hunks))
    /\ UNCHANGED <<pc, config, scenario, candidates, strategies_tried, resolution>>

\* the loop ends: coalesce_hunks
WalkEnd ==
    /\ pc = "walking"
    /\ ~(env.li <= Len(fileOut.left_ops) \/ env.ri <= Len(fileOut.right_ops))
    /\ fileOut' = [fileOut EXCEPT !.hunks = coalesce_hunks(fileOut.hunks)]
    /\ pc' = "walked"
    /\ UNCHANGED <<config, scenario, env, candidates, strategies_tried, resolution>>

WalkNext == StartWalk \/ WalkStep \/ WalkEnd

SpecWalk == WalkInit /\ [][WalkNext]_vars

\* the stepwise loop returns what build_hunks returns
WalkStepsAgree ==
    pc = "walked" => fileOut.hunks = build_hunks(fileOut.left_ops, fileOut.right_ops)

RECURSIVE BaseConsumed(_, _)
\* the base lines passed before cursor i: the Keep and Delete ops before it
BaseConsumed(ops, i) ==
    IF i <= 1 THEN 0
    ELSE (IF ops[i - 1].op \in {"Keep", "Delete"} THEN 1 ELSE 0) + BaseConsumed(ops, i - 1)

IsBaseOp(op) == op \in {"Keep", "Delete"}

\* C27: at every iteration of build_hunks the two cursors have passed the
\* same number of base lines, so two Keep/Delete ops under the cursors are
\* for the same base line; every iteration advances a cursor, the loop ends
\* with both streams consumed, and the arms for an exhausted side never get
\* a Keep or Delete.
C27_LockStep ==
    pc \in {"walking", "walked"} =>
        /\ BaseConsumed(fileOut.left_ops, env.li) = BaseConsumed(fileOut.right_ops, env.ri)
        /\ (IsBaseOp(OpAt(fileOut.left_ops, env.li)) /\ IsBaseOp(OpAt(fileOut.right_ops, env.ri)))
              => fileOut.left_ops[env.li].lines = fileOut.right_ops[env.ri].lines
        /\ env.arm # "None" => env.li + env.ri > env.prev_li + env.prev_ri
        /\ env.arm = "RightExhausted" => ~IsBaseOp(OpAt(fileOut.left_ops, env.prev_li))
        /\ env.arm = "LeftExhausted" => ~IsBaseOp(OpAt(fileOut.right_ops, env.prev_ri))
        /\ pc = "walked" => /\ env.li = Len(fileOut.left_ops) + 1
                            /\ env.ri = Len(fileOut.right_ops) + 1

\* C27 witness: a finished walk over two base lines in which left inserted,
\* right inserted and one side deleted a line the other kept
C27_Witness ==
    /\ pc = "walked"
    /\ BaseConsumed(fileOut.left_ops, env.li) = 2
    /\ \E i \in DOMAIN fileOut.left_ops : fileOut.left_ops[i].op = "Insert"
    /\ \E i \in DOMAIN fileOut.right_ops : fileOut.right_ops[i].op = "Insert"
    /\ \E i \in DOMAIN fileOut.left_ops : fileOut.left_ops[i].op = "Delete"
    /\ \E i \in DOMAIN fileOut.right_ops : fileOut.right_ops[i].op = "Keep"

\* some rule of the registry matches the scenario
SomeRuleMatches(s) == \E i \in DOMAIN PatternRegistry : RuleMatches(PatternRegistry[i], s)

\* C28: with no language and the threshold Medium, the defaults,
\* resolve_conflict returns a resolution exactly when some pattern rule
\* matches the scenario, and then its strategy is PatternRule; a search
\* candidate is never the resolution.
C28_TextOnlyAcceptance ==
    (Returned /\ config.language = None /\ Threshold = Medium) =>
        /\ (resolution # None) <=> SomeRuleMatches(scenario)
        /\ resolution # None => resolution[1].strategy = "PatternRule"

\* C28 witness: no rule matches, the search provides candidates, and none
\* of them is accepted
C28_Witness ==
    /\ Returned
    /\ config.language = None
    /\ Threshold = Medium
    /\ ~SomeRuleMatches(scenario)
    /\ Len(candidates) >= 2
    /\ \A i \in DOMAIN candidates : candidates[i].strategy = "SearchBased"
    /\ resolution = None

\* resolve_via_vsa returns a candidate whenever it may return one, the first
\* of them Medium (checked under SpecVsa)
VsaNeverEmpty ==
    (pc = "ranked" /\ config.max_vsa_candidates >= 1) =>
        /\ candidates # <<>>
        /\ candidates[1].confidence = Medium
        /\ Len(candidates) <= config.max_vsa_candidates

\* the case of C29: a language, the default threshold, the texts parse, no
\* pattern rule matches and the structured merge ends in Conflict
StructuredConflictCase ==
    /\ Returned
    /\ config.language # None
    /\ Threshold = Medium
    /\ config.max_vsa_candidates >= 1
    /\ ParseAll(env.ext).ok
    /\ ~SomeRuleMatches(scenario)
    /\ try_structured_merge(env.ext) = Ok(None)

CountEqual(children, node) ==
    Cardinality({j \in DOMAIN children : structurally_equal(children[j], node)})

\* child i is the k-th of its equals among the children
Occurrence(children, i) ==
    Cardinality({j \in 1..i : structurally_equal(children[j], children[i])})

\* the children at the positions of keep, in their order
ChildrenAt(children, keep) == UnusedChildren(children, DOMAIN children \ keep, 1)

\* the base items found unchanged on both sides: the k-th of equal items is
\* found when each side holds at least k of them
KeptBaseItems(s) ==
    ChildrenAt(s.base.children,
        {i \in DOMAIN s.base.children :
            /\ Occurrence(s.base.children, i) <= CountEqual(s.left.children, s.base.children[i])
            /\ Occurrence(s.base.children, i) <= CountEqual(s.right.children, s.base.children[i])})

\* the children of a side that no base item is matched with: of k equal
\* children, those after the first that base accounts for
UnmatchedItems(s, children) ==
    ChildrenAt(children,
        {i \in DOMAIN children :
            Occurrence(children, i) > CountEqual(s.base.children, children[i])})

\* the unmatched children of right that equal no child before them in the result
NewRightItems(s, before) ==
    LET adds == UnmatchedItems(s, s.right.children)
    IN  ChildrenAt(adds,
            {i \in DOMAIN adds :
                /\ Occurrence(adds, i) = 1
                /\ CountEqual(before, adds[i]) = 0})

UnorderedCase ==
    /\ pc = "amalgamated"
    /\ ReachesChildren(scenario)
    /\ scenario.base.type = "List" /\ scenario.base.ordering = Unordered

=============================================================================
